------------------------- MODULE CalculationsProofs -------------------------
(***************************************************************************)
(* What is computed from dividends, statements and quotes, for any years,  *)
(* quarters, dividends, stocks, periods and numbers of runs.               *)
(***************************************************************************)
EXTENDS MCCalculations, ClosingPipelineProofs, SumLemmas, TLAPS

-----------------------------------------------------------------------------
(* The table of dividends, for any quarters, years and announcements.      *)

Dates == PaidYears \cup {Unpublished}

\* A dividend that the page has been seen to have; a date stays what it was.
SeenOnPage(e) ==
    /\ e \in Details
    /\ page[<<e.of, e.term>>] # NotAnnounced
    /\ e.date # Unpublished => page[<<e.of, e.term>>] = e.date

\* A row of the table, or a copy of one that was in it: a dividend is stored under the year
\* after its own, estimated or dated, or under its own when the page has that date.
RowFits(k, r) ==
    /\ r = [of |-> r.of, amount |-> r.amount, date |-> r.date, rated |-> r.rated]
    /\ \/ r = NoDividend
       \/ r.of = k[1] - 1 /\ (r.of = 0 => k[2] = WholeYear)
       \/ r.of = k[1] /\ r.of \in YearsOfDividend /\ r.date # Unpublished /\ page[k] = r.of

\* The row is never without a dividend again.
StaysStored(k) == table[k].of # 0 \/ k = <<1, WholeYear>>

PageFits ==
    /\ calendar \in YearsOfDividend
    /\ page \in [YearsOfDividend \X Terms -> Dates \cup {NotAnnounced}]
    /\ \A d \in YearsOfDividend \X Terms : page[d] # NotAnnounced =>
        d[1] <= calendar /\ page[d] \in {d[1], d[1] + 1, Unpublished}

FlowFits(f) ==
    /\ f = [pc |-> f.pc, year |-> f.year, known |-> f.known, todo |-> f.todo,
            touched |-> f.touched]
    /\ \A e \in f.todo : SeenOnPage(e)
    /\ f.touched \subseteq PaidYears
    /\ f.pc # "save" => f.todo = {} /\ f.touched = {}

\* e is a row that a flow has read some time ago, with its key.
ReadRow(e) ==
    /\ e = [key |-> e.key, row |-> e.row]
    /\ e.key \in RowKeys /\ RowFits(e.key, e.row)
    /\ e.row # NoDividend
    /\ StaysStored(e.key)

SearchFits ==
    /\ search = [pc |-> search.pc, year |-> search.year, queue |-> search.queue,
                 row |-> search.row, date |-> search.date]
    /\ \A e \in search.queue : ReadRow(e) /\ e.row.date = Unpublished
    /\ search.pc # "idle" => search.year \in PaidYears
    /\ search.pc = "write" =>
        /\ search.date = search.year
        /\ search.row \in RowKeys /\ StaysStored(search.row)
        /\ search.row[1] - 1 \in YearsOfDividend
        /\ page[<<search.row[1] - 1, search.row[2]>>] = search.date

TableFits ==
    /\ table = [k \in RowKeys |-> table[k]]
    /\ \A k \in RowKeys : RowFits(k, table[k])

RowsInvariant ==
    /\ PageFits /\ TableFits
    /\ FlowFits(scan) /\ FlowFits(history)
    /\ SearchFits
    /\ \A c \in copies : ReadRow(c)
    /\ AnnualFollowsQuarters

\* What is on the page stays there, and a date is never changed.
PageGrows ==
    \A d \in YearsOfDividend \X Terms :
        /\ page[d] # NotAnnounced => page'[d] # NotAnnounced
        /\ page[d] \in PaidYears => page'[d] = page[d]

LEMMA PageStep ==
  ASSUME RowsInvariant, DBNext
  PROVE  PageFits' /\ PageGrows
<1> USE BackfillAssumption
<1>1. PageFits
  BY DEF RowsInvariant
<1>2. ASSUME NEW d \in YearsOfDividend \X Terms, NEW date \in PaidYears \cup {Unpublished},
             AnnounceDividend(d, date)
      PROVE  PageFits' /\ PageGrows
  <2>1. d[1] \in YearsOfDividend /\ date # NotAnnounced
    BY DEF PaidYears, Unpublished, NotAnnounced, YearsOfDividend
  <2>2. page' = [page EXCEPT ![d] = date] /\ calendar' = calendar /\ d[1] <= calendar
    BY <1>2 DEF AnnounceDividend
  <2>3. page' \in [YearsOfDividend \X Terms -> Dates \cup {NotAnnounced}]
    BY <1>1, <2>2 DEF PageFits, Dates
  <2>4. \A x \in YearsOfDividend \X Terms : x # d => page'[x] = page[x]
    BY <1>1, <2>2 DEF PageFits
  <2>5. page'[d] = date
    BY <1>1, <2>2 DEF PageFits
  <2>6. PageFits'
    BY <1>1, <1>2, <2>2, <2>3, <2>4, <2>5 DEF PageFits, AnnounceDividend
  <2>7. page[d] \notin PaidYears
    BY <1>2 DEF AnnounceDividend, PaidYears, Unpublished, NotAnnounced
  <2> QED
    BY <2>1, <2>4, <2>5, <2>6, <2>7 DEF PageGrows
<1>3. CASE NewYear
  BY <1>1, <1>3 DEF NewYear, PageFits, PageGrows, YearsOfDividend
<1>4. CASE UNCHANGED <<calendar, page>>
  BY <1>1, <1>4 DEF PageFits, PageGrows
<1> QED
  BY <1>2, <1>3, <1>4 DEF DBNext, FlagExpires, ScanBegins, ScanChecksFlag, ScanSetsFlag,
     ScanFetches, ScanGivesUp, ScanEnds, ScanSaves, ScanRefreshes, HistoryFetches,
     HistoryEnds, HistorySaves, HistoryRefreshes, SearchBegins, SearchChecksFlag,
     SearchSetsFlag, SearchWrites, SearchSkips, SearchVisits, SearchFindsNothing,
     PayoutBegins, PayoutEnds, PayoutSaves

\* What has been seen on the page, and what fits it, does so later.
LEMMA FitsStay ==
  ASSUME PageFits, PageGrows
  PROVE  /\ \A e : SeenOnPage(e) => SeenOnPage(e)'
         /\ \A k \in RowKeys : \A r : RowFits(k, r) => RowFits(k, r)'
<1> USE BackfillAssumption
<1>1. ASSUME NEW e, SeenOnPage(e)
      PROVE  SeenOnPage(e)'
  BY <1>1 DEF SeenOnPage, PageGrows, Details, PaidYears, Unpublished, YearsOfDividend
<1>2. ASSUME NEW k \in RowKeys, NEW r, RowFits(k, r)
      PROVE  RowFits(k, r)'
  <2>1. CASE r.of = k[1] /\ r.of \in YearsOfDividend /\ page[k] = r.of
    <3>1. k \in YearsOfDividend \X Terms /\ page[k] \in PaidYears
      BY <2>1 DEF RowKeys, PaidYears, YearsOfDividend
    <3> QED
      BY <1>2, <2>1, <3>1 DEF RowFits, PageGrows
  <2> QED
    BY <1>2, <2>1 DEF RowFits
<1> QED
  BY <1>1, <1>2

-----------------------------------------------------------------------------
(* The ways in which the table changes.                                    *)

\* What a search writes.
DateWritten == [table EXCEPT ![search.row].date = search.date]

\* What payout_ratio writes back.
CopyWritten(c, rated) == [table EXCEPT ![c.key] = [c.row EXCEPT !.rated = rated]]

LEMMA SavedFits ==
  ASSUME PageFits, TableFits, NEW e, SeenOnPage(e), table' = Saved(e)
  PROVE  /\ <<PaidYear(e), e.term>> \in RowKeys
         /\ table' = [k \in RowKeys |-> table'[k]]
         /\ \A k \in RowKeys : RowFits(k, table'[k])
         /\ \A k \in RowKeys : StaysStored(k) => StaysStored(k)'
         /\ \A k \in RowKeys : k # <<PaidYear(e), e.term>> => table'[k] = table[k]
<1> USE BackfillAssumption
<1> DEFINE key == <<PaidYear(e), e.term>>
           row == [of |-> e.of, amount |-> 1, date |-> e.date, rated |-> FALSE]
<1>1. e.of \in YearsOfDividend /\ e.term \in Terms /\ e.date \in PaidYears \cup {Unpublished}
  BY DEF SeenOnPage, Details
<1>2. <<e.of, e.term>> \in YearsOfDividend \X Terms
  BY <1>1
<1>3. page[<<e.of, e.term>>] \in {e.of, e.of + 1, Unpublished}
  BY <1>2 DEF PageFits, SeenOnPage
<1>4. key \in RowKeys
  BY <1>1 DEF RowKeys, PaidYear, PaidYears, YearsOfDividend
<1>5. RowFits(key, row)
  BY <1>1, <1>2, <1>3 DEF RowFits, PaidYear, SeenOnPage, YearsOfDividend
<1>6. table' = [table EXCEPT ![key] = row]
  BY DEF Saved
<1> HIDE DEF key, row
<1>7. table' = [k \in RowKeys |-> table'[k]] /\ table'[key] = row
      /\ \A k \in RowKeys : k # key => table'[k] = table[k]
  BY <1>4, <1>6 DEF TableFits
<1>8. row.of # 0
  BY <1>1 DEF row, YearsOfDividend
<1> QED
  BY <1>4, <1>5, <1>7, <1>8 DEF TableFits, StaysStored, key

LEMMA TotalFits ==
  ASSUME TableFits, NEW y \in PaidYears, table' = WithAnnualTotal(y)
  PROVE  /\ table' = [k \in RowKeys |-> table'[k]]
         /\ \A k \in RowKeys : RowFits(k, table'[k])
         /\ \A k \in RowKeys : StaysStored(k) => StaysStored(k)'
         /\ \A k \in RowKeys : k # <<y, WholeYear>> => table'[k] = table[k]
         /\ QuartersOf(y) # {} => table'[<<y, WholeYear>>].amount = QuarterTotal(y)
<1> USE BackfillAssumption
<1> DEFINE key == <<y, WholeYear>>
           row == IF table[key] = NoDividend
                  THEN [NoDividend EXCEPT !.of = y - 1, !.amount = QuarterTotal(y)]
                  ELSE [table[key] EXCEPT !.amount = QuarterTotal(y)]
<1>1. key \in RowKeys
  BY DEF RowKeys, Terms
<1>2. RowFits(key, table[key])
  BY <1>1 DEF TableFits
<1>3. RowFits(key, row) /\ row.amount = QuarterTotal(y)
  <2>1. CASE table[key] = NoDividend
    BY <2>1 DEF RowFits, NoDividend
  <2>2. CASE table[key] # NoDividend
    <3>1. row = [of |-> table[key].of, amount |-> QuarterTotal(y), date |-> table[key].date,
                 rated |-> table[key].rated]
      BY <1>2, <2>2 DEF RowFits
    <3> QED
      BY <1>2, <2>2, <3>1 DEF RowFits
  <2> QED
    BY <2>1, <2>2
<1>4. table[key].of # 0 => row.of = table[key].of
  BY <1>2 DEF RowFits, NoDividend
<1>5. table[key] = NoDividend => row.of = y - 1
  BY DEF NoDividend
<1>6. CASE QuartersOf(y) = {}
  BY <1>6 DEF WithAnnualTotal, TableFits, StaysStored
<1>7. CASE QuartersOf(y) # {}
  <2>1. table' = [table EXCEPT ![key] = row]
    BY <1>1, <1>7 DEF WithAnnualTotal, TableFits
  <2> HIDE DEF key, row
  <2>2. table' = [k \in RowKeys |-> table'[k]] /\ table'[key] = row
        /\ \A k \in RowKeys : k # key => table'[k] = table[k]
    BY <1>1, <2>1 DEF TableFits
  <2> QED
    BY <1>1, <1>3, <1>4, <2>2 DEF TableFits, StaysStored, key
<1> QED
  BY <1>6, <1>7

LEMMA DateFits ==
  ASSUME TableFits, SearchFits, search.pc = "write", table' = DateWritten
  PROVE  /\ table' = [k \in RowKeys |-> table'[k]]
         /\ \A k \in RowKeys : RowFits(k, table'[k])
         /\ \A k \in RowKeys : StaysStored(k) => StaysStored(k)'
         /\ \A k \in RowKeys : table'[k].amount = table[k].amount
         /\ \A k \in RowKeys : table'[k] # NoDividend => table[k] # NoDividend
         /\ \A k \in RowKeys : k # search.row => table'[k] = table[k]
         /\ table[search.row].of # 0
         /\ table'[search.row].date = search.date
<1> USE BackfillAssumption
<1> DEFINE key == search.row
           row == [table[key] EXCEPT !.date = search.date]
<1>1. key \in RowKeys /\ key[1] - 1 \in YearsOfDividend /\ StaysStored(key)
      /\ search.date \in PaidYears
  BY DEF SearchFits
<1>2. key[1] # 1 /\ table[key].of # 0
  BY <1>1 DEF StaysStored, YearsOfDividend
<1>3. RowFits(key, table[key])
  BY <1>1 DEF TableFits
<1>4. row = [of |-> table[key].of, amount |-> table[key].amount, date |-> search.date,
             rated |-> table[key].rated]
  BY <1>3 DEF RowFits
<1>5. RowFits(key, row)
  BY <1>1, <1>2, <1>3, <1>4 DEF RowFits, NoDividend, Unpublished, PaidYears
<1>6. table' = [table EXCEPT ![key] = row]
  BY <1>1 DEF DateWritten, TableFits
<1>7. row.amount = table[key].amount /\ row.of = table[key].of /\ row.date = search.date
  BY <1>4
<1> HIDE DEF key, row
<1>8. table' = [k \in RowKeys |-> table'[k]] /\ table'[key] = row
      /\ \A k \in RowKeys : k # key => table'[k] = table[k]
  BY <1>1, <1>6 DEF TableFits
<1>9. table[key] # NoDividend
  BY <1>2 DEF NoDividend
<1> QED
  BY <1>1, <1>2, <1>5, <1>7, <1>8, <1>9 DEF TableFits, StaysStored, key

LEMMA CopyFits ==
  ASSUME TableFits, NEW c, ReadRow(c), NEW rated \in BOOLEAN, table' = CopyWritten(c, rated)
  PROVE  /\ table' = [k \in RowKeys |-> table'[k]]
         /\ \A k \in RowKeys : RowFits(k, table'[k])
         /\ \A k \in RowKeys : StaysStored(k) => StaysStored(k)'
         /\ \A k \in RowKeys : k # c.key => table'[k] = table[k]
         /\ table'[c.key].amount = c.row.amount
         /\ c.key[2] # WholeYear => table[c.key] # NoDividend
<1> USE BackfillAssumption
<1> DEFINE row == [c.row EXCEPT !.rated = rated]
<1>1. c.key \in RowKeys /\ RowFits(c.key, c.row) /\ c.row # NoDividend /\ StaysStored(c.key)
  BY DEF ReadRow
<1>2. row = [of |-> c.row.of, amount |-> c.row.amount, date |-> c.row.date, rated |-> rated]
  BY <1>1 DEF RowFits
<1>3. RowFits(c.key, row)
  BY <1>1, <1>2 DEF RowFits
<1>4. row.amount = c.row.amount /\ row.of = c.row.of
  BY <1>2
<1>5. c.row.of # 0 \/ (c.key[1] = 1 /\ c.key[2] = WholeYear)
  BY <1>1 DEF RowFits, RowKeys, YearsOfDividend, PaidYears
<1>6. c.key = <<c.key[1], c.key[2]>>
  BY <1>1 DEF RowKeys
<1>7. table' = [table EXCEPT ![c.key] = row]
  BY DEF CopyWritten
<1> HIDE DEF row
<1>8. table' = [k \in RowKeys |-> table'[k]] /\ table'[c.key] = row
      /\ \A k \in RowKeys : k # c.key => table'[k] = table[k]
  BY <1>1, <1>7 DEF TableFits
<1>9. c.key[2] # WholeYear => table[c.key] # NoDividend
  BY <1>1, <1>6 DEF StaysStored, NoDividend
<1> QED
  BY <1>1, <1>3, <1>4, <1>5, <1>6, <1>8, <1>9 DEF TableFits, StaysStored

-----------------------------------------------------------------------------
(* The totals of the years.                                                *)

\* A year whose amounts are what they were, and that has no quarters it had not, agrees
\* with its quarters as it did.
LEMMA TotalsStay ==
  ASSUME NEW y \in PaidYears,
         \A t \in Terms : table'[<<y, t>>].amount = table[<<y, t>>].amount,
         \A q \in Quarters : table'[<<y, q>>] # NoDividend => table[<<y, q>>] # NoDividend
  PROVE  /\ QuartersOf(y)' # {} => QuartersOf(y) # {}
         /\ QuarterTotal(y)' = QuarterTotal(y)
         /\ table'[<<y, WholeYear>>].amount = table[<<y, WholeYear>>].amount
<1>1. \A q \in Quarters : table'[<<y, q>>].amount = table[<<y, q>>].amount
  BY DEF Terms
<1>2. [q \in Quarters |-> table'[<<y, q>>].amount] = [q \in Quarters |-> table[<<y, q>>].amount]
  BY <1>1
<1>3. QuarterTotal(y)' = QuarterTotal(y)
  BY <1>2 DEF QuarterTotal
<1> QED
  BY <1>3 DEF QuartersOf, IsStored, Terms

LEMMA SaveKeepsTotals ==
  ASSUME PageFits, TableFits, AnnualFollowsQuarters, NEW e, SeenOnPage(e),
         table' = Saved(e),
         TouchedBy(e) \cup scan.touched \cup history.touched
            \subseteq scan'.touched \cup history'.touched,
         lagging' = lagging \cup LagsAfterSave(e)
  PROVE  AnnualFollowsQuarters'
<1> USE BackfillAssumption
<1>1. SUFFICES ASSUME NEW y \in PaidYears \ (scan'.touched \cup history'.touched \cup lagging'),
                      QuartersOf(y)' # {}
               PROVE  table'[<<y, WholeYear>>].amount = QuarterTotal(y)'
  BY DEF AnnualFollowsQuarters
<1>2. \A k \in RowKeys : k # <<PaidYear(e), e.term>> => table'[k] = table[k]
  BY SavedFits
<1>3. y \notin scan.touched \cup history.touched \cup lagging
  BY <1>1
<1>4. e.term \in Terms
  BY DEF SeenOnPage, Details
<1>5. CASE y # PaidYear(e)
  <2>1. \A t \in Terms : table'[<<y, t>>] = table[<<y, t>>]
    BY <1>2, <1>5 DEF RowKeys
  <2>2. \A q \in Quarters : table'[<<y, q>>] = table[<<y, q>>]
    BY <2>1 DEF Terms
  <2>3. /\ QuartersOf(y)' # {} => QuartersOf(y) # {}
        /\ QuarterTotal(y)' = QuarterTotal(y)
        /\ table'[<<y, WholeYear>>].amount = table[<<y, WholeYear>>].amount
    BY <2>1, <2>2, TotalsStay
  <2> QED
    BY <1>1, <1>3, <2>3 DEF AnnualFollowsQuarters
<1>6. CASE y = PaidYear(e)
  <2>1. e.term = WholeYear
    BY <1>1, <1>6 DEF TouchedBy
  <2>2. \A q \in Quarters : table'[<<y, q>>] = table[<<y, q>>]
    BY <1>2, <2>1 DEF RowKeys, Terms
  <2>3. QuartersOf(y) # {}
    BY <1>1, <2>2 DEF QuartersOf, IsStored
  <2> QED
    BY <1>1, <1>6, <2>1, <2>3 DEF LagsAfterSave
<1> QED
  BY <1>5, <1>6

LEMMA RefreshKeepsTotals ==
  ASSUME TableFits, AnnualFollowsQuarters, NEW y \in PaidYears, table' = WithAnnualTotal(y),
         (scan.touched \cup history.touched) \ {y} \subseteq scan'.touched \cup history'.touched,
         lagging' = lagging \ {y}
  PROVE  AnnualFollowsQuarters'
<1> USE BackfillAssumption
<1>1. SUFFICES ASSUME NEW x \in PaidYears \ (scan'.touched \cup history'.touched \cup lagging'),
                      QuartersOf(x)' # {}
               PROVE  table'[<<x, WholeYear>>].amount = QuarterTotal(x)'
  BY DEF AnnualFollowsQuarters
<1>2. /\ \A k \in RowKeys : k # <<y, WholeYear>> => table'[k] = table[k]
      /\ QuartersOf(y) # {} => table'[<<y, WholeYear>>].amount = QuarterTotal(y)
  BY TotalFits
<1>3. \A q \in Quarters : table'[<<x, q>>] = table[<<x, q>>]
  BY <1>2 DEF RowKeys, Terms
<1>4. QuartersOf(x) # {}
  BY <1>1, <1>3 DEF QuartersOf, IsStored
<1>5. [q \in Quarters |-> table'[<<x, q>>].amount] = [q \in Quarters |-> table[<<x, q>>].amount]
  BY <1>3
<1>6. QuarterTotal(x)' = QuarterTotal(x)
  BY <1>5 DEF QuarterTotal
<1>7. CASE x = y
  BY <1>2, <1>4, <1>6, <1>7
<1>8. CASE x # y
  <2>1. table'[<<x, WholeYear>>] = table[<<x, WholeYear>>]
    BY <1>2, <1>8 DEF RowKeys, Terms
  <2>2. x \notin scan.touched \cup history.touched \cup lagging
    BY <1>1, <1>8
  <2> QED
    BY <1>4, <1>6, <2>1, <2>2 DEF AnnualFollowsQuarters
<1> QED
  BY <1>7, <1>8

LEMMA DateKeepsTotals ==
  ASSUME TableFits, SearchFits, search.pc = "write", AnnualFollowsQuarters,
         table' = DateWritten, UNCHANGED <<scan, history, lagging>>
  PROVE  AnnualFollowsQuarters'
<1>1. /\ \A k \in RowKeys : table'[k].amount = table[k].amount
      /\ \A k \in RowKeys : table'[k] # NoDividend => table[k] # NoDividend
  BY DateFits
<1>2. SUFFICES ASSUME NEW y \in PaidYears \ (scan.touched \cup history.touched \cup lagging),
                      QuartersOf(y)' # {}
               PROVE  table'[<<y, WholeYear>>].amount = QuarterTotal(y)'
  BY DEF AnnualFollowsQuarters
<1>3. /\ \A t \in Terms : table'[<<y, t>>].amount = table[<<y, t>>].amount
      /\ \A q \in Quarters : table'[<<y, q>>] # NoDividend => table[<<y, q>>] # NoDividend
  BY <1>1 DEF RowKeys, Terms
<1>4. /\ QuartersOf(y)' # {} => QuartersOf(y) # {}
      /\ QuarterTotal(y)' = QuarterTotal(y)
      /\ table'[<<y, WholeYear>>].amount = table[<<y, WholeYear>>].amount
  BY <1>3, TotalsStay
<1> QED
  BY <1>2, <1>4 DEF AnnualFollowsQuarters

LEMMA CopyKeepsTotals ==
  ASSUME TableFits, AnnualFollowsQuarters, NEW c, ReadRow(c), NEW rated \in BOOLEAN,
         table' = CopyWritten(c, rated), UNCHANGED <<scan, history>>,
         lagging' = IF c.row.amount = table[c.key].amount THEN lagging
                    ELSE lagging \cup {c.key[1]}
  PROVE  AnnualFollowsQuarters'
<1>1. /\ \A k \in RowKeys : k # c.key => table'[k] = table[k]
      /\ table'[c.key].amount = c.row.amount
      /\ c.key[2] # WholeYear => table[c.key] # NoDividend
  BY CopyFits
<1>2. SUFFICES ASSUME NEW y \in PaidYears \ (scan.touched \cup history.touched \cup lagging'),
                      QuartersOf(y)' # {}
               PROVE  table'[<<y, WholeYear>>].amount = QuarterTotal(y)'
  BY DEF AnnualFollowsQuarters
<1>3. y \notin lagging
  BY <1>2
<1>4. \A t \in Terms : table'[<<y, t>>].amount = table[<<y, t>>].amount
  <2>1. TAKE t \in Terms
  <2>2. CASE c.key = <<y, t>>
    BY <1>1, <1>2, <2>2
  <2>3. CASE c.key # <<y, t>>
    BY <1>1, <2>3 DEF RowKeys
  <2> QED
    BY <2>2, <2>3
<1>5. \A q \in Quarters : table'[<<y, q>>] # NoDividend => table[<<y, q>>] # NoDividend
  BY <1>1, BackfillAssumption DEF RowKeys, Terms
<1>6. /\ QuartersOf(y)' # {} => QuartersOf(y) # {}
      /\ QuarterTotal(y)' = QuarterTotal(y)
      /\ table'[<<y, WholeYear>>].amount = table[<<y, WholeYear>>].amount
  BY <1>4, <1>5, TotalsStay
<1> QED
  BY <1>2, <1>3, <1>6 DEF AnnualFollowsQuarters

-----------------------------------------------------------------------------
(* The steps.                                                              *)

LEMMA TableFitsLater ==
  ASSUME PageFits, PageGrows, table' = [k \in RowKeys |-> table'[k]],
         \A k \in RowKeys : RowFits(k, table'[k])
  PROVE  TableFits'
<1>1. SUFFICES ASSUME NEW k \in RowKeys
               PROVE  RowFits(k, table[k])'
  BY DEF TableFits
<1>2. RowFits(k, table'[k])
  OBVIOUS
<1>3. page[k] \in YearsOfDividend /\ k \in YearsOfDividend \X Terms => page'[k] = page[k]
  BY BackfillAssumption DEF PageGrows, YearsOfDividend, PaidYears
<1>4. k[1] \in YearsOfDividend => k \in YearsOfDividend \X Terms
  BY DEF RowKeys
<1> QED
  BY <1>2, <1>3, <1>4 DEF RowFits

\* What a step leaves in the table fits, and no row that was stored is lost.
TableKept ==
    /\ table' = [k \in RowKeys |-> table'[k]]
    /\ \A k \in RowKeys : RowFits(k, table'[k])
    /\ \A k \in RowKeys : StaysStored(k) => StaysStored(k)'

LEMMA TableStep ==
  ASSUME RowsInvariant, DBNext
  PROVE  TableKept /\ AnnualFollowsQuarters'
<1>0. PageFits /\ TableFits /\ AnnualFollowsQuarters /\ SearchFits
      /\ FlowFits(scan) /\ FlowFits(history)
  BY DEF RowsInvariant
<1> USE <1>0
<1>1. table' = table => TableKept
  BY DEF TableFits, StaysStored, TableKept
<1>2. /\ table' = table
      /\ scan.touched \cup history.touched \cup lagging
            \subseteq scan'.touched \cup history'.touched \cup lagging'
      => AnnualFollowsQuarters'
  BY DEF AnnualFollowsQuarters, QuartersOf, QuarterTotal, IsStored
<1>3. ASSUME NEW e \in scan.todo, ScanSaves(e)
      PROVE  TableKept /\ AnnualFollowsQuarters'
  <2>1. SeenOnPage(e)
    BY DEF FlowFits
  <2>2. CASE table' = Saved(e) /\ lagging' = lagging \cup LagsAfterSave(e)
             /\ scan' = [scan EXCEPT !.todo = @ \ {e}, !.touched = @ \cup TouchedBy(e)]
    <3>1. scan'.touched = scan.touched \cup TouchedBy(e) /\ history' = history
      BY <1>3, <2>2 DEF FlowFits, ScanSaves
    <3> QED
      BY <2>1, <2>2, <3>1, SavedFits, SaveKeepsTotals DEF TableKept
  <2>3. CASE scan' = [scan EXCEPT !.todo = @ \ {e}] /\ UNCHANGED <<table, lagging>>
    <3>1. scan'.touched = scan.touched /\ history' = history
      BY <1>3, <2>3 DEF FlowFits, ScanSaves
    <3> QED
      BY <1>1, <1>2, <2>3, <3>1
  <2> QED
    BY <1>3, <2>2, <2>3 DEF ScanSaves
<1>4. ASSUME NEW y \in scan.touched, ScanRefreshes(y)
      PROVE  TableKept /\ AnnualFollowsQuarters'
  <2>1. y \in PaidYears /\ scan'.touched = scan.touched \ {y} /\ history' = history
    BY <1>4 DEF FlowFits, ScanRefreshes
  <2>2. CASE table' = WithAnnualTotal(y) /\ lagging' = lagging \ {y}
    BY <2>1, <2>2, TotalFits, RefreshKeepsTotals DEF TableKept
  <2>3. CASE lagging' = lagging \cup {y} /\ UNCHANGED table
    BY <1>1, <1>2, <2>1, <2>3
  <2> QED
    BY <1>4, <2>2, <2>3 DEF ScanRefreshes
<1>5. ASSUME NEW e \in history.todo, HistorySaves(e)
      PROVE  TableKept /\ AnnualFollowsQuarters'
  <2>1. SeenOnPage(e)
    BY DEF FlowFits
  <2>2. table' = Saved(e) /\ lagging' = lagging \cup LagsAfterSave(e)
        /\ history'.touched = history.touched \cup TouchedBy(e) /\ scan' = scan
    BY <1>5 DEF FlowFits, HistorySaves
  <2> QED
    BY <2>1, <2>2, SavedFits, SaveKeepsTotals DEF TableKept
<1>6. ASSUME NEW y \in history.touched, HistoryRefreshes(y)
      PROVE  TableKept /\ AnnualFollowsQuarters'
  <2>1. y \in PaidYears /\ history'.touched = history.touched \ {y} /\ scan' = scan
        /\ table' = WithAnnualTotal(y) /\ lagging' = lagging \ {y}
    BY <1>6 DEF FlowFits, HistoryRefreshes
  <2> QED
    BY <2>1, TotalFits, RefreshKeepsTotals DEF TableKept
<1>7. CASE HistoryEnds
  BY <1>1, <1>2, <1>7 DEF HistoryEnds
<1>8. CASE SearchWrites
  <2>1. UNCHANGED <<scan, history, lagging>> /\ search.pc = "write"
        /\ (table' = table \/ table' = DateWritten)
    BY <1>8 DEF SearchWrites, DateWritten
  <2>2. CASE table' = table
    BY <1>1, <1>2, <2>1, <2>2
  <2>3. CASE table' = DateWritten
    BY <2>1, <2>3, DateFits, DateKeepsTotals DEF TableKept
  <2> QED
    BY <2>1, <2>2, <2>3
<1>9. ASSUME NEW c \in copies, PayoutSaves(c)
      PROVE  TableKept /\ AnnualFollowsQuarters'
  <2>1. PICK rated \in BOOLEAN : table' = CopyWritten(c, rated)
    BY <1>9 DEF PayoutSaves, CopyWritten
  <2>2. ReadRow(c)
    BY DEF RowsInvariant
  <2> QED
    BY <1>9, <2>1, <2>2, CopyFits, CopyKeepsTotals DEF TableKept, PayoutSaves
<1>10. CASE ScanFetches \/ ScanBegins \/ ScanChecksFlag \/ ScanSetsFlag \/ ScanGivesUp \/ ScanEnds
  <2>1. table' = table /\ history' = history /\ lagging' = lagging
    BY <1>10 DEF ScanFetches, ScanBegins, ScanChecksFlag, ScanSetsFlag, ScanGivesUp, ScanEnds
  <2>2. scan.touched = {}
    BY <1>10 DEF ScanFetches, ScanBegins, ScanChecksFlag, ScanSetsFlag, ScanGivesUp, ScanEnds,
       FlowFits
  <2> QED
    BY <1>1, <1>2, <2>1, <2>2
<1>11. CASE HistoryFetches
  <2>1. table' = table /\ scan' = scan /\ lagging' = lagging /\ history.touched = {}
    BY <1>11 DEF HistoryFetches, FlowFits
  <2> QED
    BY <1>1, <1>2, <2>1
<1>12. CASE UNCHANGED <<table, scan, history, lagging>>
  BY <1>1, <1>2, <1>12
<1> QED
  BY <1>3, <1>4, <1>5, <1>6, <1>7, <1>8, <1>9, <1>10, <1>11, <1>12
  DEF DBNext, AnnounceDividend, NewYear, FlagExpires, SearchBegins, SearchChecksFlag,
      SearchSetsFlag, SearchSkips, SearchVisits, SearchFindsNothing, PayoutBegins, PayoutEnds

\* What a flow has read from the page, and of the years it has touched.
LEMMA FlowStep ==
  ASSUME RowsInvariant, DBNext
  PROVE  FlowFits(scan)' /\ FlowFits(history)'
<1> USE BackfillAssumption
<1>1. PageFits /\ PageGrows /\ FlowFits(scan) /\ FlowFits(history)
  BY PageStep DEF RowsInvariant
<1>2. \A e : SeenOnPage(e) => SeenOnPage(e)'
  BY <1>1, FitsStay
<1>3. \A e : SeenOnPage(e) => TouchedBy(e) \subseteq PaidYears
  BY DEF SeenOnPage, Details, TouchedBy, PaidYear, PaidYears, YearsOfDividend
<1>4. \A e \in PageDetails : SeenOnPage(e)
  BY DEF PageDetails, SeenOnPage, Details, PaidYears, Unpublished, NotAnnounced
<1>5. FlowFits(AtRest)'
  BY DEF FlowFits, AtRest
<1>6. UNCHANGED scan => FlowFits(scan)'
  BY <1>1, <1>2 DEF FlowFits
<1>7. UNCHANGED history => FlowFits(history)'
  BY <1>1, <1>2 DEF FlowFits
<1>8. FlowFits(scan)'
  <2>1. CASE ScanBegins
    BY <2>1 DEF ScanBegins, FlowFits, AtRest
  <2>2. CASE ScanChecksFlag \/ ScanSetsFlag \/ ScanGivesUp \/ ScanEnds
    BY <1>1, <1>5, <2>2 DEF ScanChecksFlag, ScanSetsFlag, ScanGivesUp, ScanEnds, FlowFits, AtRest
  <2>3. CASE ScanFetches
    <3>1. scan' = [scan EXCEPT !.pc = "save", !.todo = {e \in PageDetails : ScanTakes(e)}]
      BY <2>3 DEF ScanFetches
    <3>2. \A e \in scan'.todo : SeenOnPage(e)'
      BY <1>1, <1>2, <1>4, <3>1 DEF FlowFits
    <3> QED
      BY <1>1, <3>1, <3>2 DEF FlowFits
  <2>4. ASSUME NEW e \in scan.todo, ScanSaves(e)
        PROVE  FlowFits(scan)'
    <3>1. TouchedBy(e) \subseteq PaidYears
      BY <1>1, <1>3 DEF FlowFits
    <3> QED
      BY <1>1, <1>2, <2>4, <3>1 DEF ScanSaves, FlowFits
  <2>5. ASSUME NEW y \in scan.touched, ScanRefreshes(y)
        PROVE  FlowFits(scan)'
    BY <1>1, <1>2, <2>5 DEF ScanRefreshes, FlowFits
  <2> QED
    BY <1>6, <2>1, <2>2, <2>3, <2>4, <2>5
    DEF DBNext, AnnounceDividend, NewYear, FlagExpires, HistoryFetches, HistoryEnds,
        HistorySaves, HistoryRefreshes, SearchBegins, SearchChecksFlag, SearchSetsFlag,
        SearchWrites, SearchSkips, SearchVisits, SearchFindsNothing, PayoutBegins,
        PayoutEnds, PayoutSaves
<1>9. FlowFits(history)'
  <2>1. CASE HistoryFetches
    <3>1. history' = [AtRest EXCEPT !.pc = "save", !.todo = PageDetails]
      BY <2>1 DEF HistoryFetches
    <3> QED
      BY <1>2, <1>4, <3>1 DEF FlowFits, AtRest
  <2>2. CASE HistoryEnds
    BY <1>5, <2>2 DEF HistoryEnds
  <2>3. ASSUME NEW e \in history.todo, HistorySaves(e)
        PROVE  FlowFits(history)'
    <3>1. TouchedBy(e) \subseteq PaidYears
      BY <1>1, <1>3 DEF FlowFits
    <3> QED
      BY <1>1, <1>2, <2>3, <3>1 DEF HistorySaves, FlowFits
  <2>4. ASSUME NEW y \in history.touched, HistoryRefreshes(y)
        PROVE  FlowFits(history)'
    BY <1>1, <1>2, <2>4 DEF HistoryRefreshes, FlowFits
  <2> QED
    BY <1>7, <2>1, <2>2, <2>3, <2>4
    DEF DBNext, AnnounceDividend, NewYear, FlagExpires, ScanBegins, ScanChecksFlag,
        ScanSetsFlag, ScanFetches, ScanGivesUp, ScanEnds, ScanSaves, ScanRefreshes,
        SearchBegins, SearchChecksFlag, SearchSetsFlag, SearchWrites, SearchSkips,
        SearchVisits, SearchFindsNothing, PayoutBegins, PayoutEnds, PayoutSaves
<1> QED
  BY <1>8, <1>9

\* Rows that a flow reads, and rows it has read.
LEMMA ReadRowsStay ==
  ASSUME RowsInvariant, DBNext
  PROVE  /\ \A e : ReadRow(e) => ReadRow(e)'
         /\ \A k \in RowKeys : StaysStored(k) => StaysStored(k)'
         /\ \A k \in RowKeys : IsStored(k) => ReadRow([key |-> k, row |-> table[k]])
<1> USE BackfillAssumption
<1>1. PageFits /\ PageGrows /\ TableFits /\ TableKept
  BY PageStep, TableStep DEF RowsInvariant
<1>2. ASSUME NEW e, ReadRow(e)
      PROVE  ReadRow(e)'
  <2>1. RowFits(e.key, e.row)'
    BY <1>1, <1>2, FitsStay DEF ReadRow
  <2> QED
    BY <1>1, <1>2, <2>1 DEF ReadRow, TableKept
<1>3. ASSUME NEW k \in RowKeys, IsStored(k)
      PROVE  ReadRow([key |-> k, row |-> table[k]])
  <2>1. RowFits(k, table[k])
    BY <1>1 DEF TableFits
  <2>2. StaysStored(k)
    BY <1>3, <2>1 DEF RowFits, IsStored, StaysStored, RowKeys, YearsOfDividend, PaidYears
  <2> QED
    BY <1>3, <2>1, <2>2 DEF ReadRow, IsStored
<1> QED
  BY <1>1, <1>2, <1>3 DEF TableKept

LEMMA CopiesStep ==
  ASSUME RowsInvariant, DBNext
  PROVE  \A c \in copies' : ReadRow(c)'
<1>1. \A e : ReadRow(e) => ReadRow(e)'
  BY ReadRowsStay
<1>2. \A c \in copies : ReadRow(c)'
  BY <1>1 DEF RowsInvariant
<1>3. CASE PayoutBegins
  <2>1. SUFFICES ASSUME NEW c \in copies'
                 PROVE  ReadRow(c)
    BY <1>1
  <2>2. PICK k \in RowKeys : IsStored(k) /\ c = [key |-> k, row |-> table[k]]
    BY <1>3 DEF PayoutBegins
  <2> QED
    BY <2>2, ReadRowsStay
<1>4. copies' \subseteq copies => \A c \in copies' : ReadRow(c)'
  BY <1>2
<1>5. CASE copies' \subseteq copies
  BY <1>4, <1>5
<1> QED
  BY <1>3, <1>5
  DEF DBNext, AnnounceDividend, NewYear, FlagExpires, ScanBegins, ScanChecksFlag,
      ScanSetsFlag, ScanFetches, ScanGivesUp, ScanEnds, ScanSaves, ScanRefreshes,
      HistoryFetches, HistoryEnds, HistorySaves, HistoryRefreshes, SearchBegins,
      SearchChecksFlag, SearchSetsFlag, SearchWrites, SearchSkips, SearchVisits,
      SearchFindsNothing, PayoutEnds, PayoutSaves

LEMMA SearchStep ==
  ASSUME RowsInvariant, DBNext
  PROVE  SearchFits'
<1> USE BackfillAssumption
<1>1. PageFits /\ PageGrows /\ SearchFits
  BY PageStep DEF RowsInvariant
<1>2. \A e \in search.queue : ReadRow(e)' /\ e.row.date = Unpublished
  BY <1>1, ReadRowsStay DEF SearchFits
<1>3. NoSearch = [pc |-> "idle", year |-> 0, queue |-> {}, row |-> <<>>, date |-> Unpublished]
  BY DEF NoSearch
<1>4. ASSUME UNCHANGED search
      PROVE  SearchFits'
  <2>1. search.pc = "write" =>
          /\ StaysStored(search.row)'
          /\ page'[<<search.row[1] - 1, search.row[2]>>] = search.date
    <3>1. SUFFICES ASSUME search.pc = "write"
                   PROVE  /\ StaysStored(search.row)'
                          /\ page'[<<search.row[1] - 1, search.row[2]>>] = search.date
      OBVIOUS
    <3>2. /\ search.row \in RowKeys /\ StaysStored(search.row)
          /\ search.row[1] - 1 \in YearsOfDividend
          /\ page[<<search.row[1] - 1, search.row[2]>>] \in PaidYears
          /\ page[<<search.row[1] - 1, search.row[2]>>] = search.date
      BY <1>1, <3>1 DEF SearchFits
    <3>3. <<search.row[1] - 1, search.row[2]>> \in YearsOfDividend \X Terms
      BY <3>2 DEF RowKeys
    <3>4. StaysStored(search.row)'
      BY <1>4, <3>2, ReadRowsStay DEF StaysStored
    <3> QED
      BY <1>1, <3>2, <3>3, <3>4 DEF PageGrows
  <2> QED
    BY <1>1, <1>2, <1>4, <2>1 DEF SearchFits
<1>5. ASSUME NEW rest \in SUBSET search.queue, search.pc # "idle", search' = NextInQueue(rest)
      PROVE  SearchFits'
  <2>1. CASE rest = {}
    BY <1>3, <1>5, <2>1 DEF NextInQueue, SearchFits
  <2>2. CASE rest # {}
    <3>1. search' = [pc |-> "check", year |-> search.year, queue |-> rest, row |-> <<>>,
                     date |-> Unpublished]
      BY <1>3, <1>5, <2>2 DEF NextInQueue
    <3> QED
      BY <1>1, <1>2, <1>5, <3>1 DEF SearchFits
  <2> QED
    BY <2>1, <2>2
<1>6. CASE SearchBegins
  <2>1. search' = [pc |-> "check", year |-> calendar, queue |-> WithoutDate(calendar),
                   row |-> <<>>, date |-> Unpublished]
    BY <1>3, <1>6 DEF SearchBegins
  <2>2. ASSUME NEW e \in WithoutDate(calendar)
        PROVE  ReadRow(e)' /\ e.row.date = Unpublished
    <3>1. PICK k \in RowKeys : /\ IsStored(k) /\ table[k].date = Unpublished
                               /\ e = [key |-> k, row |-> table[k]]
      BY DEF WithoutDate
    <3> QED
      BY <3>1, ReadRowsStay
  <2>3. calendar \in PaidYears
    BY <1>1 DEF PageFits, YearsOfDividend, PaidYears
  <2> QED
    BY <2>1, <2>2, <2>3 DEF SearchFits
<1>7. CASE SearchChecksFlag \/ SearchSetsFlag
  BY <1>1, <1>2, <1>7 DEF SearchChecksFlag, SearchSetsFlag, SearchFits
<1>8. ASSUME NEW e \in search.queue, SearchSkips(e) \/ SearchFindsNothing(e)
      PROVE  SearchFits'
  BY <1>5, <1>8 DEF SearchSkips, SearchFindsNothing
<1>9. CASE SearchWrites
  BY <1>5, <1>9 DEF SearchWrites
<1>10. ASSUME NEW e \in search.queue, SearchVisits(e)
       PROVE  SearchFits'
  <2>1. PICK found \in PageDetails :
          /\ PaidYear(found) = search.year /\ ChangedDetail(found, e.row, e.key[2])
          /\ search' = [search EXCEPT !.pc = "write", !.date = found.date,
                                      !.row = e.key, !.queue = @ \ {e}]
    BY <1>10 DEF SearchVisits
  <2>2. search' = [pc |-> "write", year |-> search.year, queue |-> search.queue \ {e},
                   row |-> e.key, date |-> found.date]
    BY <1>1, <2>1 DEF SearchFits
  <2>3. ReadRow(e) /\ ReadRow(e)' /\ e.row.date = Unpublished
    BY <1>1, <1>2 DEF SearchFits
  <2>4. found.date = search.year /\ search.year \in PaidYears
        /\ found.of \in YearsOfDividend /\ found.term = e.key[2] /\ found.of = e.row.of
        /\ page[<<found.of, found.term>>] = found.date /\ found.date \in PaidYears
    BY <1>1, <1>10, <2>1, <2>3
    DEF PageDetails, Details, PaidYear, ChangedDetail, SearchFits, SearchVisits
  <2>5. e.row.of = e.key[1] - 1 /\ e.key \in RowKeys
    BY <2>3 DEF ReadRow, RowFits
  <2>6. <<found.of, found.term>> \in YearsOfDividend \X Terms
    BY <2>4, <2>5 DEF RowKeys
  <2>7. page'[<<found.of, found.term>>] = found.date
    BY <1>1, <2>4, <2>6 DEF PageGrows
  <2> QED
    BY <1>2, <2>2, <2>3, <2>4, <2>5, <2>7 DEF SearchFits, ReadRow
<1> QED
  BY <1>4, <1>6, <1>7, <1>8, <1>9, <1>10
  DEF DBNext, AnnounceDividend, NewYear, FlagExpires, ScanBegins, ScanChecksFlag,
      ScanSetsFlag, ScanFetches, ScanGivesUp, ScanEnds, ScanSaves, ScanRefreshes,
      HistoryFetches, HistoryEnds, HistorySaves, HistoryRefreshes, PayoutBegins,
      PayoutEnds, PayoutSaves

-----------------------------------------------------------------------------
LEMMA RowsInit ==
  ASSUME DBInit
  PROVE  RowsInvariant
<1> USE BackfillAssumption
<1>1. PICK e \in {d \in Details : d.of = 1 /\ d.date \in {Unpublished, 1, 2}} :
        /\ page = [d \in YearsOfDividend \X Terms |->
                    IF d = <<e.of, e.term>> THEN e.date ELSE NotAnnounced]
        /\ \/ table = [k \in RowKeys |-> NoDividend]
           \/ table = [k \in RowKeys |-> StoredRow(e, k)]
  BY DEF DBInit
<1>2. e.of = 1 /\ e.of \in YearsOfDividend /\ e.term \in Terms
      /\ e.date \in {Unpublished, 1, 2} /\ e.date \in Dates
  BY DEF Details, Dates
<1>3. PageFits
  BY <1>1, <1>2 DEF PageFits, DBInit, Dates, NotAnnounced, YearsOfDividend, Unpublished
<1>4. <<PaidYear(e), e.term>> \in RowKeys /\ PaidYear(e) \in {1, 2}
  BY <1>2 DEF PaidYear, RowKeys, PaidYears, Unpublished
<1>5. ASSUME NEW k \in RowKeys
      PROVE  RowFits(k, StoredRow(e, k))
  <2>1. CASE k = <<PaidYear(e), e.term>>
    <3>1. StoredRow(e, k) = [of |-> 1, amount |-> 1, date |-> e.date, rated |-> FALSE]
      BY <1>2, <2>1 DEF StoredRow, NoDividend
    <3>2. e.date # Unpublished /\ PaidYear(e) = 1 => page[k] = 1 /\ 1 \in YearsOfDividend
      BY <1>1, <1>2, <2>1 DEF PaidYear, Unpublished
    <3> QED
      BY <1>2, <2>1, <3>1, <3>2 DEF RowFits, PaidYear, Unpublished
  <2>2. CASE k # <<PaidYear(e), e.term>> /\ k = <<PaidYear(e), WholeYear>>
    <3>1. StoredRow(e, k) =
            [of |-> k[1] - 1, amount |-> SumFunction([q \in Quarters |-> IF q = e.term THEN 1 ELSE 0]),
             date |-> Unpublished, rated |-> FALSE]
      BY <2>2 DEF StoredRow, NoDividend
    <3> HIDE DEF StoredRow
    <3> QED
      BY <2>2, <3>1 DEF RowFits
  <2>3. CASE k # <<PaidYear(e), e.term>> /\ k # <<PaidYear(e), WholeYear>>
    BY <2>3 DEF StoredRow, RowFits, NoDividend
  <2> QED
    BY <2>1, <2>2, <2>3
<1>6. \A k \in RowKeys : RowFits(k, NoDividend)
  BY DEF RowFits, NoDividend
<1>7. TableFits
  BY <1>1, <1>5, <1>6 DEF TableFits
<1>8. AnnualFollowsQuarters
  <2>1. SUFFICES ASSUME NEW y \in PaidYears, NEW p \in QuartersOf(y)
                 PROVE  table[<<y, WholeYear>>].amount = QuarterTotal(y)
    BY DEF AnnualFollowsQuarters
  <2>2. p \in Quarters /\ table[<<y, p>>] # NoDividend /\ <<y, p>> \in RowKeys
    BY DEF QuartersOf, IsStored, RowKeys, Terms
  <2>3. table = [k \in RowKeys |-> StoredRow(e, k)]
    BY <1>1, <2>2
  <2>4. StoredRow(e, <<y, p>>) # NoDividend
    BY <2>2, <2>3
  <2>5. y = PaidYear(e) /\ p = e.term
    BY <2>2, <2>4 DEF StoredRow
  <2>6. \A q \in Quarters : <<y, q>> \in RowKeys /\ <<y, WholeYear>> \in RowKeys
    BY DEF RowKeys, Terms
  <2>7. \A q \in Quarters : table[<<y, q>>].amount = IF q = e.term THEN 1 ELSE 0
    BY <2>2, <2>3, <2>5, <2>6 DEF StoredRow, NoDividend
  <2>8. [q \in Quarters |-> table[<<y, q>>].amount]
          = [q \in Quarters |-> IF q = e.term THEN 1 ELSE 0]
    BY <2>7
  <2>9. table[<<y, WholeYear>>].amount = SumFunction([q \in Quarters |-> IF q = e.term THEN 1 ELSE 0])
    BY <2>2, <2>3, <2>5, <2>6 DEF StoredRow, NoDividend
  <2> QED
    BY <2>8, <2>9 DEF QuarterTotal
<1>9. FlowFits(AtRest) /\ scan = AtRest /\ history = AtRest
  BY DEF DBInit, FlowFits, AtRest
<1>10. SearchFits /\ \A c \in copies : ReadRow(c)
  BY DEF DBInit, SearchFits, NoSearch
<1> QED
  BY <1>3, <1>7, <1>8, <1>9, <1>10 DEF RowsInvariant

LEMMA RowsStep ==
  ASSUME RowsInvariant, [DBNext]_dbVars
  PROVE  RowsInvariant'
<1>1. CASE DBNext
  <2>1. TableFits'
    BY <1>1, PageStep, TableStep, TableFitsLater DEF TableKept, RowsInvariant
  <2> QED
    BY <1>1, <2>1, PageStep, TableStep, FlowStep, SearchStep, CopiesStep DEF RowsInvariant
<1>2. CASE UNCHANGED dbVars
  <2>1. PageFits' /\ TableFits'
    BY <1>2 DEF dbVars, RowsInvariant, PageFits, TableFits, RowFits
  <2>2. FlowFits(scan)' /\ FlowFits(history)'
    BY <1>2 DEF dbVars, RowsInvariant, FlowFits, SeenOnPage
  <2>3. \A e : ReadRow(e) => ReadRow(e)'
    BY <1>2 DEF dbVars, ReadRow, RowFits, StaysStored
  <2>4. SearchFits'
    BY <1>2, <2>3 DEF dbVars, RowsInvariant, SearchFits, StaysStored
  <2>5. \A c \in copies' : ReadRow(c)'
    BY <1>2, <2>3 DEF dbVars, RowsInvariant
  <2>6. AnnualFollowsQuarters'
    BY <1>2 DEF dbVars, RowsInvariant, AnnualFollowsQuarters, QuartersOf, QuarterTotal, IsStored
  <2> QED
    BY <2>1, <2>2, <2>4, <2>5, <2>6 DEF RowsInvariant
<1> QED
  BY <1>1, <1>2

\* Two dividends of the page with different years but one paid year would share a row.
LEMMA DatesGoHome ==
  ASSUME RowsInvariant, DBNext
  PROVE  DatesGoToTheirDividend
<1> USE BackfillAssumption
<1>1. SUFFICES ASSUME search.pc = "write", search' # search, search.year = calendar,
                      KeysAreDistinct,
                      NEW k \in RowKeys, table'[k] # table[k]
               PROVE  [of |-> table[k].of, term |-> k[2], date |-> table'[k].date] \in PageDetails
  BY DEF DatesGoToTheirDividend
<1>2. PageFits /\ TableFits /\ SearchFits
  BY DEF RowsInvariant
<1>3. table' = DateWritten
  <2>1. SearchWrites
    BY <1>1
    DEF DBNext, AnnounceDividend, NewYear, FlagExpires, ScanBegins, ScanChecksFlag,
        ScanSetsFlag, ScanFetches, ScanGivesUp, ScanEnds, ScanSaves, ScanRefreshes,
        HistoryFetches, HistoryEnds, HistorySaves, HistoryRefreshes, SearchBegins,
        SearchChecksFlag, SearchSetsFlag, SearchSkips, SearchVisits, SearchFindsNothing,
        PayoutBegins, PayoutEnds, PayoutSaves
  <2> QED
    BY <1>1, <2>1 DEF SearchWrites, DateWritten
<1>4. k = search.row /\ table[k].of # 0 /\ table'[k].date = search.date
  BY <1>1, <1>2, <1>3, DateFits
<1>5. /\ k[1] \in PaidYears /\ k[2] \in Terms /\ k = <<k[1], k[2]>>
      /\ k[1] - 1 \in YearsOfDividend
      /\ page[<<k[1] - 1, k[2]>>] = calendar /\ search.date = calendar
      /\ calendar \in PaidYears
  BY <1>1, <1>2, <1>4 DEF SearchFits, RowKeys
<1> DEFINE mine == [of |-> k[1] - 1, term |-> k[2], date |-> calendar]
           other == [of |-> k[1], term |-> k[2], date |-> k[1]]
<1>6. mine \in PageDetails /\ PaidYear(mine) = calendar
  BY <1>5 DEF PageDetails, Details, PaidYear, PaidYears, Unpublished
<1>7. table[k].of # k[1] - 1 => k[1] \in YearsOfDividend /\ page[k] = k[1]
  BY <1>2, <1>4 DEF TableFits, RowFits, NoDividend
<1>8. ASSUME k[1] \in YearsOfDividend, page[k] = k[1]
      PROVE  FALSE
  <2>1. other \in PageDetails /\ PaidYear(other) = k[1]
    BY <1>5, <1>8 DEF PageDetails, Details, PaidYear, PaidYears, Unpublished, YearsOfDividend
  <2>2. k \in YearsOfDividend \X Terms /\ <<k[1] - 1, k[2]>> \in YearsOfDividend \X Terms
    BY <1>5, <1>8
  <2>3. k[1] <= calendar
    BY <1>2, <1>8, <2>2 DEF PageFits, NotAnnounced, YearsOfDividend
  <2>4. calendar \in {k[1] - 1, k[1]}
    BY <1>2, <1>5, <2>2 DEF PageFits, NotAnnounced, Unpublished, PaidYears, YearsOfDividend
  <2>5. calendar = k[1]
    BY <1>8, <2>3, <2>4 DEF YearsOfDividend
  <2>6. mine = other
    BY <1>1, <1>6, <2>1, <2>5 DEF KeysAreDistinct
  <2> QED
    BY <1>8, <2>6 DEF YearsOfDividend
<1> QED
  BY <1>4, <1>5, <1>6, <1>7, <1>8

-----------------------------------------------------------------------------
\* What the flows write, and what they are about to write, fits the page as it was seen,
\* however they overlap.
THEOREM RowsFit == DBSpec => []RowsInvariant
<1>1. DBInit => RowsInvariant
  BY RowsInit
<1>2. RowsInvariant /\ [DBNext]_dbVars => RowsInvariant'
  BY RowsStep
<1> QED
  BY <1>1, <1>2, PTL DEF DBSpec

\* The total of a year follows its quarters, but where a flow is about to refresh it or a
\* failure or another source has left it behind, and a date goes only to the dividend it
\* was announced for (upsert_annual_total_dividend, update_dividend_date).
THEOREM RowsAgree == DBSpec => DividendRowsAgree
<1>1. DBInit => RowsInvariant
  BY RowsInit
<1>2. RowsInvariant /\ [DBNext]_dbVars => RowsInvariant'
  BY RowsStep
<1>3. RowsInvariant /\ [DBNext]_dbVars
        => [AnnualFollowsQuarters' /\ DatesGoToTheirDividend]_dbVars
  BY <1>2, DatesGoHome DEF RowsInvariant
<1> QED
  BY <1>1, <1>2, <1>3, PTL DEF DBSpec, DividendRowsAgree

-----------------------------------------------------------------------------
(* The types of the table and of what the flows have in hand.              *)

\* A quarter pays at most once, and the total of a year is a sum of its quarters.
RowTyped(k, r) == r \in DividendRows /\ (k[2] # WholeYear => r.amount \in 0 .. 1)
EntryTyped(e) == e.key \in RowKeys /\ RowTyped(e.key, e.row)

FlowTyped(f) == f.todo \subseteq Details /\ f.touched \subseteq PaidYears

TableTyped == table \in [RowKeys -> DividendRows] /\ \A k \in RowKeys : RowTyped(k, table[k])

BackfillTyped ==
    /\ TableTyped
    /\ recently \in BOOLEAN
    /\ scan.pc \in {"idle", "listed", "set", "fetch", "save"} /\ FlowTyped(scan)
    /\ history.pc \in {"idle", "save"} /\ FlowTyped(history)
    /\ search.pc \in {"idle", "check", "set", "visit", "write"}
    /\ \A e \in search.queue \cup copies : EntryTyped(e)
    /\ lagging \subseteq PaidYears
    /\ news \in 0 .. MaxNews /\ flows \in 0 .. MaxFlows

LEMMA PaidOnce ==
  ASSUME NEW e \in Details, PageFits, SeenOnPage(e)
  PROVE  <<PaidYear(e), e.term>> \in RowKeys /\ PaidYear(e) \in PaidYears
<1> USE BackfillAssumption
<1>1. e.of \in YearsOfDividend /\ e.term \in Terms /\ e.date \in PaidYears \cup {Unpublished}
  BY DEF Details
<1> QED
  BY <1>1 DEF RowKeys, PaidYear, PaidYears, YearsOfDividend

LEMMA TotalTyped ==
  ASSUME TableTyped, NEW y \in PaidYears
  PROVE  QuarterTotal(y) \in 0 .. Cardinality(Quarters) + 1
<1>1. PICK f : f = [q \in Quarters |-> table[<<y, q>>].amount]
  OBVIOUS
<1>2. IsFiniteSet(Quarters) /\ WholeYear \notin Quarters
  BY BackfillAssumption
<1>3. ASSUME NEW q \in Quarters PROVE f[q] \in 0 .. 1
  <2>1. <<y, q>> \in RowKeys /\ q # WholeYear
    BY <1>2 DEF RowKeys, Terms
  <2> QED
    BY <1>1, <2>1 DEF TableTyped, RowTyped
<1>4. SumFunctionOnSet(f, Quarters) \in 0 .. Cardinality(Quarters)
  BY <1>2, <1>3, SumIsBounded
<1>5. QuarterTotal(y) = SumFunctionOnSet(f, Quarters)
  BY <1>1 DEF QuarterTotal, SumFunction
<1>6. Cardinality(Quarters) \in Nat
  BY <1>2, FS_CardinalityType
<1> QED
  BY <1>4, <1>5, <1>6

\* The ways in which the table changes keep the types.
LEMMA RowReplaced ==
  ASSUME TableTyped, NEW k \in RowKeys, NEW r, RowTyped(k, r), table' = [table EXCEPT ![k] = r]
  PROVE  TableTyped'
<1>1. r \in DividendRows
  BY DEF RowTyped
<1>2. table' \in [RowKeys -> DividendRows] /\ table'[k] = r
      /\ \A x \in RowKeys : x # k => table'[x] = table[x]
  BY <1>1 DEF TableTyped
<1> QED
  BY <1>2 DEF TableTyped, RowTyped

LEMMA SavedTyped ==
  ASSUME TableTyped, PageFits, NEW e \in Details, SeenOnPage(e), table' = Saved(e)
  PROVE  TableTyped' /\ TouchedBy(e) \subseteq PaidYears /\ LagsAfterSave(e) \subseteq PaidYears
<1>1. PICK k, r : k = <<PaidYear(e), e.term>> /\ r = [of |-> e.of, amount |-> 1, date |-> e.date, rated |-> FALSE]
  OBVIOUS
<1>2. k \in RowKeys /\ PaidYear(e) \in PaidYears
  BY <1>1, PaidOnce
<1>3. e.of \in 0 .. LastYear /\ e.date \in PaidYears \cup {Unpublished}
  BY BackfillAssumption DEF Details, YearsOfDividend
<1>4. 1 \in 0 .. Cardinality(Quarters) + 1
  BY BackfillAssumption, FS_CardinalityType
<1>5. RowTyped(k, r)
  BY <1>1, <1>3, <1>4 DEF RowTyped, DividendRows
<1>6. table' = [table EXCEPT ![k] = r]
  BY <1>1 DEF Saved
<1>7. TableTyped'
  BY <1>2, <1>5, <1>6, RowReplaced
<1> QED
  BY <1>2, <1>7 DEF TouchedBy, LagsAfterSave

LEMMA RefreshTyped ==
  ASSUME TableTyped, NEW y \in PaidYears, table' = WithAnnualTotal(y)
  PROVE  TableTyped'
<1>1. PICK k, t : k = <<y, WholeYear>> /\ t = QuarterTotal(y)
  OBVIOUS
<1>2. k \in RowKeys /\ k[2] = WholeYear
  BY <1>1 DEF RowKeys, Terms
<1>3. t \in 0 .. Cardinality(Quarters) + 1
  BY <1>1, TotalTyped
<1>4. CASE QuartersOf(y) = {}
  BY <1>4 DEF WithAnnualTotal, TableTyped
<1>5. CASE QuartersOf(y) # {} /\ table[k] = NoDividend
  <2>1. PICK r : r = [NoDividend EXCEPT !.of = y - 1, !.amount = t]
    OBVIOUS
  <2>2. y - 1 \in 0 .. LastYear
    BY BackfillAssumption DEF PaidYears
  <2>3. NoDividend \in DividendRows
    <3>1. 0 \in 0 .. LastYear /\ 0 \in 0 .. Cardinality(Quarters) + 1
      BY BackfillAssumption, FS_CardinalityType
    <3> QED
      BY <3>1 DEF NoDividend, DividendRows
  <2>4. RowTyped(k, r)
    BY <1>2, <1>3, <2>1, <2>2, <2>3 DEF RowTyped, DividendRows
  <2>5. table' = [table EXCEPT ![k] = r]
    BY <1>1, <1>2, <1>5, <2>1 DEF WithAnnualTotal, TableTyped
  <2> QED
    BY <1>2, <2>4, <2>5, RowReplaced
<1>6. CASE QuartersOf(y) # {} /\ table[k] # NoDividend
  <2>1. PICK r : r = [table[k] EXCEPT !.amount = t]
    OBVIOUS
  <2>2. table[k] \in DividendRows
    BY <1>2 DEF TableTyped
  <2>3. RowTyped(k, r)
    BY <1>2, <1>3, <2>1, <2>2 DEF RowTyped, DividendRows
  <2>4. table' = [table EXCEPT ![k] = r]
    BY <1>1, <1>2, <1>6, <2>1 DEF WithAnnualTotal, TableTyped
  <2> QED
    BY <1>2, <2>3, <2>4, RowReplaced
<1> QED
  BY <1>4, <1>5, <1>6

LEMMA DateTyped ==
  ASSUME TableTyped, SearchFits, search.pc = "write", table' = DateWritten
  PROVE  TableTyped'
<1>1. PICK k, d : k = search.row /\ d = search.date
  OBVIOUS
<1>2. k \in RowKeys /\ d \in PaidYears
  BY <1>1 DEF SearchFits
<1>3. table[k] \in DividendRows /\ RowTyped(k, table[k])
  BY <1>2 DEF TableTyped
<1>4. PICK r : r = [table[k] EXCEPT !.date = d]
  OBVIOUS
<1>5. r \in DividendRows /\ r.amount = table[k].amount
  BY <1>2, <1>3, <1>4 DEF DividendRows
<1>6. table' = [table EXCEPT ![k] = r]
  BY <1>1, <1>2, <1>4 DEF DateWritten, TableTyped
<1> QED
  BY <1>2, <1>3, <1>5, <1>6, RowReplaced DEF RowTyped

LEMMA CopyTyped ==
  ASSUME TableTyped, NEW c, EntryTyped(c), NEW rated \in BOOLEAN, table' = CopyWritten(c, rated)
  PROVE  TableTyped'
<1>1. PICK r : r = [c.row EXCEPT !.rated = rated]
  OBVIOUS
<1>2. c.row \in DividendRows
  BY DEF EntryTyped, RowTyped
<1>3. r \in DividendRows /\ r.amount = c.row.amount
  BY <1>1, <1>2 DEF DividendRows
<1>4. RowTyped(c.key, r) /\ c.key \in RowKeys
  BY <1>3 DEF EntryTyped, RowTyped
<1>5. table' = [table EXCEPT ![c.key] = r]
  BY <1>1 DEF CopyWritten
<1> QED
  BY <1>4, <1>5, RowReplaced

LEMMA ScanTyped ==
  ASSUME RowsInvariant, BackfillTyped,
         \/ ScanBegins \/ ScanChecksFlag \/ ScanSetsFlag \/ ScanFetches \/ ScanGivesUp \/ ScanEnds
         \/ \E e \in scan.todo : ScanSaves(e)
         \/ \E y \in scan.touched : ScanRefreshes(y)
  PROVE  BackfillTyped'
<1> USE DEF BackfillTyped, FlowTyped
<1>1. PageFits /\ FlowFits(scan)
  BY DEF RowsInvariant
<1>2. scan = [pc |-> scan.pc, year |-> scan.year, known |-> scan.known, todo |-> scan.todo,
              touched |-> scan.touched]
      /\ \A e \in scan.todo : SeenOnPage(e)
  BY <1>1 DEF FlowFits
<1>3. AtRest.pc = "idle" /\ AtRest.todo = {} /\ AtRest.touched = {}
  BY DEF AtRest
<1>4. MaxFlows \in Nat
  BY BackfillAssumption
<1>5. CASE ScanBegins
  <2>1. scan'.pc = "listed" /\ scan'.todo = {} /\ scan'.touched = {}
    BY <1>5 DEF ScanBegins, AtRest
  <2>2. flows' \in 0 .. MaxFlows
    BY <1>4, <1>5 DEF ScanBegins, BeginFlow
  <2> QED
    BY <1>5, <2>1, <2>2 DEF ScanBegins, TableTyped
<1>6. CASE ScanChecksFlag
  <2>1. scan'.pc \in {"idle", "set"} /\ scan'.todo \subseteq scan.todo /\ scan'.touched \subseteq scan.touched
    BY <1>2, <1>3, <1>6 DEF ScanChecksFlag
  <2> QED
    BY <1>6, <2>1 DEF ScanChecksFlag, TableTyped
<1>7. CASE ScanSetsFlag
  <2>1. scan'.pc = "fetch" /\ scan'.todo = scan.todo /\ scan'.touched = scan.touched
    BY <1>2, <1>7 DEF ScanSetsFlag
  <2> QED
    BY <1>7, <2>1 DEF ScanSetsFlag, TableTyped
<1>8. CASE ScanFetches
  <2>1. scan'.pc = "save" /\ scan'.todo \subseteq Details /\ scan'.touched = scan.touched
    BY <1>2, <1>8 DEF ScanFetches, PageDetails
  <2> QED
    BY <1>8, <2>1 DEF ScanFetches, TableTyped
<1>9. CASE ScanGivesUp
  <2>1. scan'.pc = "idle" /\ scan'.todo = {} /\ scan'.touched = {} /\ recently' \in BOOLEAN
    BY <1>3, <1>9 DEF ScanGivesUp
  <2> QED
    BY <1>9, <2>1 DEF ScanGivesUp, TableTyped
<1>10. CASE ScanEnds
  <2>1. scan'.pc = "idle" /\ scan'.todo = {} /\ scan'.touched = {}
    BY <1>3, <1>10 DEF ScanEnds
  <2> QED
    BY <1>10, <2>1 DEF ScanEnds, TableTyped
<1>11. ASSUME NEW e \in scan.todo, ScanSaves(e) PROVE BackfillTyped'
  <2>1. e \in Details /\ SeenOnPage(e)
    BY <1>2
  <2>2. /\ UNCHANGED <<recently, history, search, copies, news, flows>>
        /\ \/ /\ table' = Saved(e)
              /\ scan' = [scan EXCEPT !.todo = @ \ {e}, !.touched = @ \cup TouchedBy(e)]
              /\ lagging' = lagging \cup LagsAfterSave(e)
           \/ /\ scan' = [scan EXCEPT !.todo = @ \ {e}]
              /\ UNCHANGED <<table, lagging>>
    BY <1>11 DEF ScanSaves
  <2>3. scan'.pc = scan.pc /\ scan'.todo = scan.todo \ {e}
    BY <1>2, <2>2
  <2>4. CASE scan' = [scan EXCEPT !.todo = @ \ {e}] /\ UNCHANGED <<table, lagging>>
    <3>1. scan'.touched = scan.touched
      BY <1>2, <2>4
    <3> QED
      BY <2>2, <2>3, <2>4, <3>1 DEF TableTyped
  <2>5. CASE /\ table' = Saved(e)
             /\ scan' = [scan EXCEPT !.todo = @ \ {e}, !.touched = @ \cup TouchedBy(e)]
             /\ lagging' = lagging \cup LagsAfterSave(e)
    <3>1. scan'.touched = scan.touched \cup TouchedBy(e)
      BY <1>2, <2>5
    <3>2. TableTyped' /\ TouchedBy(e) \subseteq PaidYears /\ LagsAfterSave(e) \subseteq PaidYears
      BY <1>1, <2>1, <2>5, SavedTyped
    <3> QED
      BY <2>2, <2>3, <2>5, <3>1, <3>2
  <2> QED
    BY <2>2, <2>4, <2>5
<1>12. ASSUME NEW y \in scan.touched, ScanRefreshes(y) PROVE BackfillTyped'
  <2>1. y \in PaidYears
    OBVIOUS
  <2>2. scan'.pc = scan.pc /\ scan'.todo = scan.todo /\ scan'.touched = scan.touched \ {y}
    BY <1>2, <1>12 DEF ScanRefreshes
  <2>3. TableTyped' /\ lagging' \subseteq PaidYears
    BY <1>12, <2>1, RefreshTyped DEF ScanRefreshes, TableTyped
  <2> QED
    BY <1>12, <2>2, <2>3 DEF ScanRefreshes
<1> QED
  BY <1>5, <1>6, <1>7, <1>8, <1>9, <1>10, <1>11, <1>12

LEMMA HistoryTyped ==
  ASSUME RowsInvariant, BackfillTyped,
         \/ HistoryFetches \/ HistoryEnds
         \/ \E e \in history.todo : HistorySaves(e)
         \/ \E y \in history.touched : HistoryRefreshes(y)
  PROVE  BackfillTyped'
<1> USE DEF BackfillTyped, FlowTyped
<1>1. PageFits /\ FlowFits(history)
  BY DEF RowsInvariant
<1>2. history = [pc |-> history.pc, year |-> history.year, known |-> history.known,
                 todo |-> history.todo, touched |-> history.touched]
      /\ \A e \in history.todo : SeenOnPage(e)
  BY <1>1 DEF FlowFits
<1>3. MaxFlows \in Nat
  BY BackfillAssumption
<1>4. CASE HistoryFetches
  <2>1. history'.pc = "save" /\ history'.todo \subseteq Details /\ history'.touched = {}
    BY <1>4 DEF HistoryFetches, AtRest, PageDetails
  <2>2. flows' \in 0 .. MaxFlows
    BY <1>3, <1>4 DEF HistoryFetches, BeginFlow
  <2> QED
    BY <1>4, <2>1, <2>2 DEF HistoryFetches, TableTyped
<1>5. CASE HistoryEnds
  <2>1. history'.pc = "idle" /\ history'.todo = {} /\ history'.touched = {}
    BY <1>5 DEF HistoryEnds, AtRest
  <2> QED
    BY <1>5, <2>1 DEF HistoryEnds, TableTyped
<1>6. ASSUME NEW e \in history.todo, HistorySaves(e) PROVE BackfillTyped'
  <2>1. e \in Details /\ SeenOnPage(e)
    BY <1>2
  <2>2. history'.pc = history.pc /\ history'.todo = history.todo \ {e}
        /\ history'.touched = history.touched \cup TouchedBy(e)
    BY <1>2, <1>6 DEF HistorySaves
  <2>3. TableTyped' /\ TouchedBy(e) \subseteq PaidYears /\ LagsAfterSave(e) \subseteq PaidYears
    BY <1>1, <1>6, <2>1, SavedTyped DEF HistorySaves
  <2> QED
    BY <1>6, <2>2, <2>3 DEF HistorySaves
<1>7. ASSUME NEW y \in history.touched, HistoryRefreshes(y) PROVE BackfillTyped'
  <2>1. y \in PaidYears
    OBVIOUS
  <2>2. history'.pc = history.pc /\ history'.todo = history.todo
        /\ history'.touched = history.touched \ {y}
    BY <1>2, <1>7 DEF HistoryRefreshes
  <2>3. TableTyped'
    BY <1>7, <2>1, RefreshTyped DEF HistoryRefreshes
  <2> QED
    BY <1>7, <2>2, <2>3 DEF HistoryRefreshes
<1> QED
  BY <1>4, <1>5, <1>6, <1>7

\* A row that is read is typed as long as it is kept.
LEMMA ReadTyped ==
  ASSUME TableTyped, NEW k \in RowKeys
  PROVE  EntryTyped([key |-> k, row |-> table[k]])
BY DEF TableTyped, EntryTyped, RowTyped

LEMMA SearchTyped ==
  ASSUME RowsInvariant, BackfillTyped,
         \/ SearchBegins \/ SearchChecksFlag \/ SearchSetsFlag \/ SearchWrites
         \/ \E e \in search.queue : SearchSkips(e) \/ SearchVisits(e) \/ SearchFindsNothing(e)
  PROVE  BackfillTyped'
<1>1. SearchFits /\ MaxFlows \in Nat
  BY BackfillAssumption DEF RowsInvariant
<1>2. search = [pc |-> search.pc, year |-> search.year, queue |-> search.queue,
                row |-> search.row, date |-> search.date]
  BY <1>1 DEF SearchFits
<1>3. \A rest : /\ NextInQueue(rest).pc \in {"idle", "check"}
                /\ NextInQueue(rest).queue = rest
  BY DEF NextInQueue, NoSearch
<1>4. /\ search'.pc \in {"idle", "check", "set", "visit", "write"}
      /\ \A e \in search'.queue : EntryTyped(e)
  <2>1. CASE SearchBegins
    <3>1. search'.pc = "check" /\ search'.queue = WithoutDate(calendar)
      BY <2>1 DEF SearchBegins, NoSearch
    <3>2. \A e \in WithoutDate(calendar) : EntryTyped(e)
      BY ReadTyped DEF WithoutDate, BackfillTyped
    <3> QED
      BY <3>1, <3>2
  <2>2. CASE SearchChecksFlag
    <3>1. search'.pc = "set" /\ search'.queue = search.queue
      BY <1>2, <2>2 DEF SearchChecksFlag
    <3> QED
      BY <3>1 DEF BackfillTyped
  <2>3. CASE SearchSetsFlag
    <3>1. search'.pc = "visit" /\ search'.queue = search.queue
      BY <1>2, <2>3 DEF SearchSetsFlag
    <3> QED
      BY <3>1 DEF BackfillTyped
  <2>4. CASE SearchWrites
    <3>1. search'.pc \in {"idle", "check"} /\ search'.queue = search.queue
      BY <1>3, <2>4 DEF SearchWrites
    <3> QED
      BY <3>1 DEF BackfillTyped
  <2>5. ASSUME NEW e \in search.queue, SearchSkips(e) \/ SearchFindsNothing(e)
        PROVE  /\ search'.pc \in {"idle", "check", "set", "visit", "write"}
               /\ \A x \in search'.queue : EntryTyped(x)
    <3>1. search'.pc \in {"idle", "check"} /\ search'.queue = search.queue \ {e}
      BY <1>3, <2>5 DEF SearchSkips, SearchFindsNothing
    <3> QED
      BY <3>1 DEF BackfillTyped
  <2>6. ASSUME NEW e \in search.queue, SearchVisits(e)
        PROVE  /\ search'.pc \in {"idle", "check", "set", "visit", "write"}
               /\ \A x \in search'.queue : EntryTyped(x)
    <3>1. search'.pc = "write" /\ search'.queue = search.queue \ {e}
      BY <1>2, <2>6 DEF SearchVisits
    <3> QED
      BY <3>1 DEF BackfillTyped
  <2> QED
    BY <2>1, <2>2, <2>3, <2>4, <2>5, <2>6
<1>5. TableTyped'
  <2>1. CASE SearchWrites
    <3>1. CASE table' = table
      BY <3>1 DEF BackfillTyped, TableTyped
    <3>2. CASE table' = DateWritten
      BY <1>1, <2>1, <3>2, DateTyped DEF SearchWrites, BackfillTyped
    <3> QED
      BY <2>1, <3>1, <3>2 DEF SearchWrites, DateWritten
  <2>2. CASE table' = table
    BY <2>2 DEF BackfillTyped, TableTyped
  <2> QED
    BY <2>1, <2>2 DEF SearchBegins, SearchChecksFlag, SearchSetsFlag, SearchSkips, SearchVisits,
       SearchFindsNothing
<1>6. recently' \in BOOLEAN
  BY DEF BackfillTyped, SearchBegins, SearchChecksFlag, SearchSetsFlag, SearchWrites,
     SearchSkips, SearchVisits, SearchFindsNothing
<1>7. flows' \in 0 .. MaxFlows
  <2>1. flows' = flows \/ (flows < MaxFlows /\ flows' = flows + 1)
    BY DEF BeginFlow, SearchBegins, SearchChecksFlag, SearchSetsFlag, SearchWrites,
       SearchSkips, SearchVisits, SearchFindsNothing
  <2> QED
    BY <1>1, <2>1 DEF BackfillTyped
<1>8. scan' = scan /\ history' = history /\ copies' = copies /\ news' = news /\ lagging' = lagging
  BY DEF SearchBegins, SearchChecksFlag, SearchSetsFlag, SearchWrites,
     SearchSkips, SearchVisits, SearchFindsNothing
<1> QED
  BY <1>4, <1>5, <1>6, <1>7, <1>8 DEF BackfillTyped, FlowTyped

LEMMA PayoutTyped ==
  ASSUME BackfillTyped, PayoutBegins \/ PayoutEnds \/ \E c \in copies : PayoutSaves(c)
  PROVE  BackfillTyped'
<1> USE DEF BackfillTyped, FlowTyped
<1>1. CASE PayoutBegins
  <2>1. \A e \in copies' : EntryTyped(e)
    BY <1>1, ReadTyped DEF PayoutBegins
  <2>2. flows' \in 0 .. MaxFlows
    BY <1>1, BackfillAssumption DEF PayoutBegins, BeginFlow
  <2> QED
    BY <1>1, <2>1, <2>2 DEF PayoutBegins, TableTyped
<1>2. CASE PayoutEnds
  BY <1>2 DEF PayoutEnds, TableTyped
<1>3. ASSUME NEW c \in copies, PayoutSaves(c) PROVE BackfillTyped'
  <2>1. EntryTyped(c)
    OBVIOUS
  <2>2. PICK rated \in BOOLEAN : table' = CopyWritten(c, rated)
    BY <1>3 DEF PayoutSaves, CopyWritten
  <2>3. TableTyped'
    BY <2>1, <2>2, CopyTyped
  <2>4. c.key[1] \in PaidYears
    BY <2>1 DEF EntryTyped, RowKeys
  <2>5. lagging' \subseteq PaidYears
    BY <1>3, <2>4 DEF PayoutSaves
  <2> QED
    BY <1>3, <2>3, <2>5 DEF PayoutSaves
<1> QED
  BY <1>1, <1>2, <1>3

LEMMA BackfillStartsTyped == DBInit => BackfillTyped
<1> SUFFICES ASSUME DBInit PROVE BackfillTyped
  OBVIOUS
<1>1. PICK e \in Details : /\ e.of = 1 /\ e.date \in {Unpublished, 1, 2}
                           /\ \/ table = [k \in RowKeys |-> NoDividend]
                              \/ table = [k \in RowKeys |-> StoredRow(e, k)]
  BY DEF DBInit
<1>2. Cardinality(Quarters) \in Nat /\ LastYear \in Nat \ {0} /\ MaxNews \in Nat /\ MaxFlows \in Nat
      /\ IsFiniteSet(Quarters) /\ WholeYear \notin Quarters
  BY BackfillAssumption, FS_CardinalityType
<1>3. \A k : RowTyped(k, NoDividend)
  BY <1>2 DEF RowTyped, DividendRows, NoDividend, PaidYears, Unpublished
<1>4. ASSUME NEW k \in RowKeys PROVE RowTyped(k, StoredRow(e, k))
  <2>1. CASE k = <<PaidYear(e), e.term>>
    <3>1. StoredRow(e, k) = [of |-> e.of, amount |-> 1, date |-> e.date, rated |-> FALSE]
      BY <2>1 DEF StoredRow, NoDividend
    <3>2. e.date \in PaidYears \cup {Unpublished} /\ e.of \in 0 .. LastYear
      BY <1>1, <1>2 DEF Details, YearsOfDividend
    <3> QED
      BY <1>2, <3>1, <3>2 DEF RowTyped, DividendRows
  <2>2. CASE k # <<PaidYear(e), e.term>> /\ k = <<PaidYear(e), WholeYear>>
    <3>1. PICK f : f = [q \in Quarters |-> IF q = e.term THEN 1 ELSE 0]
      OBVIOUS
    <3>2. SumFunctionOnSet(f, Quarters) \in 0 .. Cardinality(Quarters)
      BY <1>2, <3>1, SumIsBounded
    <3>3. SumFunction(f) = SumFunctionOnSet(f, Quarters)
      BY <3>1 DEF SumFunction
    <3>4. PICK n : n = SumFunction(f)
      OBVIOUS
    <3>5. StoredRow(e, k) = [of |-> k[1] - 1, amount |-> n, date |-> Unpublished, rated |-> FALSE]
      BY <2>2, <3>1, <3>4 DEF StoredRow, NoDividend
    <3>6. k[1] - 1 \in 0 .. LastYear /\ k[2] = WholeYear
      BY <1>2, <2>2 DEF RowKeys, PaidYears
    <3>7. n \in 0 .. Cardinality(Quarters) + 1
      BY <1>2, <3>2, <3>3, <3>4
    <3> QED
      BY <3>5, <3>6, <3>7 DEF RowTyped, DividendRows
  <2>3. CASE k # <<PaidYear(e), e.term>> /\ k # <<PaidYear(e), WholeYear>>
    BY <1>3, <2>3 DEF StoredRow
  <2> QED
    BY <2>1, <2>2, <2>3
<1>5. TableTyped
  <2>1. CASE table = [k \in RowKeys |-> NoDividend]
    BY <1>3, <2>1 DEF TableTyped, RowTyped
  <2>2. CASE table = [k \in RowKeys |-> StoredRow(e, k)]
    BY <1>4, <2>2 DEF TableTyped, RowTyped
  <2> QED
    BY <1>1, <2>1, <2>2
<1>6. /\ scan.pc = "idle" /\ scan.todo = {} /\ scan.touched = {}
      /\ history.pc = "idle" /\ history.todo = {} /\ history.touched = {}
      /\ search.pc = "idle" /\ search.queue = {}
  BY DEF DBInit, AtRest, NoSearch
<1>7. recently = FALSE /\ copies = {} /\ news = 0 /\ flows = 0 /\ lagging = {}
  BY DEF DBInit
<1>8. news \in 0 .. MaxNews /\ flows \in 0 .. MaxFlows
  BY <1>2, <1>7
<1> QED
  BY <1>5, <1>6, <1>7, <1>8 DEF BackfillTyped, FlowTyped

\* The table, the page and what the flows have in hand have their types; a quarter pays at
\* most once and the total of a year is no more than its quarters (dividend rows).
THEOREM BackfillTypeCorrect == DBSpec => []DBTypeOK
<1>1. BackfillTyped /\ RowsInvariant /\ [DBNext]_dbVars => BackfillTyped'
  <2> SUFFICES ASSUME BackfillTyped, RowsInvariant, [DBNext]_dbVars PROVE BackfillTyped'
    OBVIOUS
  <2>1. ASSUME UNCHANGED <<table, recently, scan, history, search, copies, flows, lagging>>,
               news' \in 0 .. MaxNews
        PROVE  BackfillTyped'
    BY <2>1 DEF BackfillTyped, FlowTyped, TableTyped
  <2>2. ASSUME NEW d, NEW date, AnnounceDividend(d, date) PROVE BackfillTyped'
    <3>1. news' \in 0 .. MaxNews
      BY <2>2, BackfillAssumption DEF AnnounceDividend, BackfillTyped
    <3> QED
      BY <2>1, <2>2, <3>1 DEF AnnounceDividend
  <2>3. CASE NewYear
    BY <2>1, <2>3 DEF NewYear, BackfillTyped
  <2>4. CASE FlagExpires
    BY <2>4 DEF FlagExpires, BackfillTyped, FlowTyped, TableTyped
  <2>5. CASE UNCHANGED dbVars
    BY <2>1, <2>5 DEF dbVars, BackfillTyped
  <2> QED
    BY <2>2, <2>3, <2>4, <2>5, ScanTyped, HistoryTyped, SearchTyped, PayoutTyped DEF DBNext
<1>2. BackfillTyped /\ RowsInvariant => DBTypeOK
  BY DEF BackfillTyped, FlowTyped, EntryTyped, RowTyped, TableTyped, RowsInvariant, PageFits, Dates,
     DBTypeOK
<1> QED
  BY <1>1, <1>2, BackfillStartsTyped, RowsFit, PTL DEF DBSpec

-----------------------------------------------------------------------------
(* The records of received dividends.                                      *)

RecalcStages == {"idle", "read", "begin", "commit", "beginDelete", "commitDelete",
                 "accumulate", "update"}
Pays == [Dividends -> 0 .. MaxPay]

Recalculations ==
    [pc : RecalcStages, todo : SUBSET Years, done : SUBSET Years, year : Years \cup {0},
     paid : Pays, doomed : SUBSET (Years \X Dividends), sum : Nat, clean : BOOLEAN]

RecordsTyped ==
    /\ DRTypeOK
    /\ recalc \in [Recalcs -> Recalculations]

\* One transaction at a time, and what it will delete is all that is in its way; a save
\* has something to save.
TransactionsFit ==
    /\ \A t \in Recalcs : recalc[t].pc \in {"begin", "commit"} => Total(recalc[t].paid) # 0
    /\ ~overlapped => \A t \in Recalcs :
        /\ \A o \in Recalcs : Open(t) /\ Open(o) => t = o
        /\ Saving(t) => ItemsElsewhere(recalc[t].year, recalc[t].paid) \subseteq recalc[t].doomed
        /\ recalc[t].pc = "commitDelete" => \A d \in Dividends :
            item[recalc[t].year][d] # 0 => <<recalc[t].year, d>> \in recalc[t].doomed
    /\ OneSummaryEach

\* The records of a year are those of its dividends, but for items that a deletion has
\* missed, which the next save removes.
YearSettled(y) ==
    /\ summary[y] = Total(Payout(y))
    /\ summary[y] # 0 => item[y] = Payout(y)

\* A recalculation that is alone and that no correction has met.
CleanFits(t) ==
    LET year == recalc[t].year  paid == recalc[t].paid  pc == recalc[t].pc IN
    /\ pc # "idle"
    /\ \A o \in Recalcs \ {t} : recalc[o].pc = "idle"
    /\ \A y \in recalc[t].done : YearSettled(y)
    /\ pc \in {"begin", "commit", "beginDelete", "commitDelete"} => paid = Payout(year)
    /\ pc \in {"beginDelete", "commitDelete"} => Total(paid) = 0
    /\ pc = "commit" => \A yd \in recalc[t].doomed : yd[1] # year /\ paid[yd[2]] # 0
    /\ pc \in {"accumulate", "update"} =>
        /\ YearSettled(year)
        /\ \A y \in Years : summary[y] = 0 => item[y] = Nothing
    /\ pc = "update" => recalc[t].sum = RecordsTotal

RecordsInvariant ==
    /\ RecordsTyped
    /\ TransactionsFit
    /\ \A t \in Recalcs : recalc[t].clean => CleanFits(t)

LEMMA TotalIsNatural ==
  ASSUME NEW f \in Pays
  PROVE  /\ Total(f) \in Nat
         /\ Total(f) = 0 <=> \A d \in Dividends : f[d] = 0
<1>1. DOMAIN f = Dividends /\ \A d \in Dividends : f[d] \in Nat
  BY DividendAssumption DEF Pays
<1>2. Total(f) = SumFunctionOnSet(f, Dividends)
  BY <1>1 DEF Total, SumFunction
<1> QED
  BY <1>1, <1>2, SumIsNatural, DividendAssumption

LEMMA RecordsTotalIsNatural ==
  ASSUME summary \in [Years -> Nat]
  PROVE  RecordsTotal \in Nat
<1>1. DOMAIN summary = Years /\ \A y \in Years : summary[y] \in Nat
  OBVIOUS
<1>2. RecordsTotal = SumFunctionOnSet(summary, Years)
  BY <1>1 DEF RecordsTotal, Total, SumFunction
<1> QED
  BY <1>1, <1>2, SumIsNatural, DividendAssumption

LEMMA LatestYear ==
  ASSUME NEW years \in SUBSET Years, years # {}
  PROVE  Max(years) \in years
<1>1. IsFiniteSet(years)
  BY DividendAssumption, FS_Subset
<1>2. \A y \in years : y \in Int
  BY DividendAssumption
<1> QED
  BY <1>1, <1>2, MaxIsGreatest

LEMMA PayoutIsPays ==
  ASSUME RecordsTyped, NEW y
  PROVE  Payout(y) \in Pays
BY DividendAssumption DEF RecordsTyped, DRTypeOK, Payout, Pays

LEMMA NothingIsPays == Nothing \in Pays
BY DividendAssumption DEF Nothing, Pays

\* The next year of a recalculation.
LEMMA NextYearTyped ==
  ASSUME RecordsTyped, NEW t \in Recalcs, recalc[t].pc # "idle"
  PROVE  /\ NextYear(recalc[t]) \in Recalculations
         /\ NextYear(recalc[t]).pc # "idle" =>
              NextYear(recalc[t]).year \in Years \ NextYear(recalc[t]).todo
<1> USE DividendAssumption, NothingIsPays DEF RecalcStages, Recalculations
<1>1. CASE recalc[t].todo = {}
  BY <1>1 DEF NextYear, NoTask
<1>2. CASE recalc[t].todo # {}
  <2>1. recalc[t].todo \in SUBSET Years /\ recalc[t].done \in SUBSET Years
        /\ recalc[t].year \in Years \cup {0}
    BY DEF RecordsTyped
  <2> DEFINE last == Max(recalc[t].todo)
  <2>2. last \in recalc[t].todo
    BY <1>2, <2>1, LatestYear
  <2>3. recalc[t].year \in Years
    BY DEF RecordsTyped, DRTypeOK
  <2>4. NextYear(recalc[t]) =
          [pc |-> "read", todo |-> recalc[t].todo \ {last},
           done |-> recalc[t].done \cup {recalc[t].year}, year |-> last, paid |-> Nothing,
           doomed |-> {}, sum |-> 0, clean |-> recalc[t].clean]
    BY <1>2 DEF NextYear, RecordsTyped
  <2> HIDE DEF last, NextYear
  <2> QED
    BY <2>1, <2>2, <2>3, <2>4 DEF RecordsTyped
<1> QED
  BY <1>1, <1>2

LEMMA TypedStep ==
  ASSUME RecordsTyped, DRNext
  PROVE  RecordsTyped'
<1> USE DividendAssumption, NothingIsPays
<1> USE DEF Recalculations
<1> DEFINE Fits(r) == r \in Recalculations /\ (r.pc # "idle" => r.year \in Years \ r.todo)
<1>1. recalc \in [Recalcs -> Recalculations] /\ \A t \in Recalcs : Fits(recalc[t])
  BY DEF RecordsTyped, DRTypeOK
<1>2. ASSUME recalc' = [t \in Recalcs |-> recalc'[t]], \A t \in Recalcs : Fits(recalc'[t]),
             dividend' \in [Dividends -> [year : Years, pay : 0 .. MaxPay]],
             summary' \in [Years -> Nat], item' \in [Years -> [Dividends -> 0 .. MaxPay]],
             cumulated' \in Nat, corrections' \in 0 .. MaxCorrections,
             overlapped' \in BOOLEAN, failed' \in BOOLEAN
      PROVE  RecordsTyped'
  <2>1. recalc' \in [Recalcs -> Recalculations]
    BY <1>2
  <2> QED
    BY <1>2, <2>1 DEF RecordsTyped, DRTypeOK, RecalcStages
<1>3. /\ dividend \in [Dividends -> [year : Years, pay : 0 .. MaxPay]]
      /\ summary \in [Years -> Nat] /\ item \in [Years -> [Dividends -> 0 .. MaxPay]]
      /\ cumulated \in Nat /\ corrections \in 0 .. MaxCorrections
      /\ overlapped \in BOOLEAN /\ failed \in BOOLEAN
  BY DEF RecordsTyped, DRTypeOK
<1>4. Fits(NoTask)
  BY DEF NoTask, RecalcStages
<1>5. ASSUME NEW d \in Dividends, NEW y \in Years, NEW pay \in 0 .. MaxPay, Correct(d, y, pay)
      PROVE  RecordsTyped'
  <2>1. recalc' = [t \in Recalcs |-> recalc'[t]] /\ \A t \in Recalcs : Fits(recalc'[t])
    BY <1>1, <1>5 DEF Correct
  <2>2. dividend' \in [Dividends -> [year : Years, pay : 0 .. MaxPay]]
    BY <1>3, <1>5 DEF Correct
  <2>3. corrections' \in 0 .. MaxCorrections
    BY <1>3, <1>5 DEF Correct
  <2> QED
    BY <1>2, <1>3, <1>5, <2>1, <2>2, <2>3 DEF Correct
<1>6. ASSUME NEW t \in Recalcs, DRStep(t)
      PROVE  RecordsTyped'
  <2>1. ASSUME NEW years \in SUBSET Years, Begin(t, years)
        PROVE  RecordsTyped'
    <3>1. years # {} /\ Max(years) \in years
      BY <2>1, LatestYear DEF Begin
    <3> DEFINE last == Max(years)
               alone == \A o \in Recalcs : recalc[o].pc = "idle"
    <3> alone \in BOOLEAN
      OBVIOUS
    <3> HIDE DEF last, alone
    <3>2. recalc' = [r \in Recalcs |->
            IF r = t
            THEN [NoTask EXCEPT !.pc = "read", !.year = last, !.todo = years \ {last},
                                !.clean = alone]
            ELSE [recalc[r] EXCEPT !.clean = FALSE]]
      BY <2>1 DEF Begin, last, alone
    <3>3. recalc'[t] = [pc |-> "read", todo |-> years \ {last}, done |-> {}, year |-> last,
                        paid |-> Nothing, doomed |-> {}, sum |-> 0, clean |-> alone]
      BY <3>2 DEF NoTask
    <3>4. Fits(recalc'[t])
      <4>1. last \in years
        BY <3>1 DEF last
      <4> QED
        BY <3>3, <4>1 DEF RecalcStages
    <3>5. \A r \in Recalcs \ {t} : Fits(recalc'[r])
      BY <1>1, <3>2
    <3>6. recalc' = [r \in Recalcs |-> recalc'[r]]
      BY <3>2
    <3> QED
      BY <1>2, <1>3, <2>1, <3>4, <3>5, <3>6 DEF Begin
  <2>2. ASSUME NEW r, Fits(r), recalc' = [recalc EXCEPT ![t] = r]
        PROVE  recalc' = [x \in Recalcs |-> recalc'[x]] /\ \A x \in Recalcs : Fits(recalc'[x])
    BY <1>1, <2>2
  <2>3. CASE ReadDividends(t)
    <3> DEFINE paid == Payout(recalc[t].year)
               pc == IF Total(paid) = 0 THEN "beginDelete" ELSE "begin"
               r == [recalc[t] EXCEPT !.paid = paid, !.pc = pc]
    <3>1. paid \in Pays
      BY PayoutIsPays
    <3>2. Fits(r)
      BY <1>1, <2>3, <3>1 DEF ReadDividends, RecalcStages
    <3>3. recalc' = [recalc EXCEPT ![t] = r]
      BY <1>1, <2>3 DEF ReadDividends
    <3> QED
      BY <1>2, <1>3, <2>2, <2>3, <3>2, <3>3 DEF ReadDividends
  <2>4. CASE BeginSave(t)
    <3> DEFINE r == [recalc[t] EXCEPT !.pc = "commit",
                        !.doomed = ItemsElsewhere(recalc[t].year, recalc[t].paid)]
    <3>1. Fits(r)
      BY <1>1, <2>4 DEF BeginSave, RecalcStages, ItemsElsewhere
    <3>2. recalc' = [recalc EXCEPT ![t] = r]
      BY <1>1, <2>4 DEF BeginSave
    <3>3. overlapped' \in BOOLEAN
      BY <1>3, <2>4 DEF BeginSave
    <3> QED
      BY <1>2, <1>3, <2>2, <2>4, <3>1, <3>2, <3>3 DEF BeginSave
  <2>5. CASE CommitSave(t)
    <3> DEFINE r == [recalc[t] EXCEPT !.pc = "accumulate", !.doomed = {}, !.paid = Nothing]
    <3>1. Fits(r)
      BY <1>1, <2>5 DEF CommitSave, Saving, RecalcStages
    <3>2. recalc' = [recalc EXCEPT ![t] = r]
      BY <1>1, <2>5 DEF CommitSave
    <3>3. recalc[t].year \in Years /\ recalc[t].paid \in Pays
      BY <1>1, <2>5 DEF CommitSave, Saving
    <3>4. summary' \in [Years -> Nat]
      <4>1. Total(recalc[t].paid) \in Nat
        BY <3>3, TotalIsNatural
      <4> QED
        BY <1>3, <2>5, <4>1 DEF CommitSave
    <3>5. item' \in [Years -> [Dividends -> 0 .. MaxPay]]
      <4>1. SUFFICES ASSUME NEW y \in Years
                     PROVE  item'[y] \in Pays /\ item' = [z \in Years |-> item'[z]]
        BY DEF Pays
      <4>2. item' = [z \in Years |-> item'[z]]
        BY <2>5 DEF CommitSave
      <4>3. CASE y = recalc[t].year
        BY <2>5, <3>3, <4>3 DEF CommitSave, ItemsSaved
      <4>4. CASE y # recalc[t].year /\ summary[y] = 0
        BY <2>5, <4>4 DEF CommitSave
      <4>5. CASE y # recalc[t].year /\ summary[y] # 0
        <5>1. item'[y] = [d \in Dividends |->
                            IF <<y, d>> \in recalc[t].doomed THEN 0 ELSE item[y][d]]
          BY <2>5, <4>5 DEF CommitSave
        <5>2. \A d \in Dividends : item[y][d] \in 0 .. MaxPay /\ 0 \in 0 .. MaxPay
          BY <1>3
        <5> QED
          BY <4>2, <5>1, <5>2 DEF Pays
      <4> QED
        BY <4>2, <4>3, <4>4, <4>5
    <3> QED
      BY <1>2, <1>3, <2>2, <2>5, <3>1, <3>2, <3>4, <3>5 DEF CommitSave
  <2>6. CASE BeginDelete(t)
    <3> DEFINE y == recalc[t].year
               doomed == IF summary[y] = 0 THEN {}
                         ELSE {<<y, d>> : d \in {d \in Dividends : item[y][d] # 0}}
               r == [recalc[t] EXCEPT !.pc = "commitDelete", !.doomed = doomed]
    <3>1. y \in Years
      BY <1>1, <2>6 DEF BeginDelete
    <3>2. doomed \in SUBSET (Years \X Dividends)
      BY <3>1
    <3>3. recalc' = [recalc EXCEPT ![t] = r]
      BY <1>1, <2>6 DEF BeginDelete
    <3>5. Fits(r)
      <4> HIDE DEF doomed
      <4> QED
        BY <1>1, <2>6, <3>1, <3>2 DEF BeginDelete, RecalcStages
    <3>4. overlapped' \in BOOLEAN
      BY <1>3, <2>6 DEF BeginDelete
    <3> QED
      BY <1>2, <1>3, <2>2, <2>6, <3>3, <3>4, <3>5 DEF BeginDelete
  <2>7. recalc[t].pc # "idle" => Fits(NextYear(recalc[t]))
    <3>1. SUFFICES ASSUME recalc[t].pc # "idle"
                   PROVE  Fits(NextYear(recalc[t]))
      OBVIOUS
    <3> QED
      BY <3>1, NextYearTyped
  <2>8. CASE CommitDelete(t)
    <3>1. recalc[t].year \in Years /\ recalc[t].pc # "idle"
      BY <1>1, <2>8 DEF CommitDelete
    <3>2. summary' \in [Years -> Nat]
      BY <1>3, <2>8 DEF CommitDelete
    <3>3. item' \in [Years -> [Dividends -> 0 .. MaxPay]]
      <4> DEFINE y == recalc[t].year
                 doomed == recalc[t].doomed
                 new == [d \in Dividends |-> IF <<y, d>> \in doomed THEN 0 ELSE item[y][d]]
      <4>1. item' = [item EXCEPT ![y] = new]
        BY <2>8, <3>1, <1>3 DEF CommitDelete
      <4>2. y \in Years
        BY <3>1
      <4> HIDE DEF y, doomed
      <4>3. \A d \in Dividends : item[y][d] \in 0 .. MaxPay /\ 0 \in 0 .. MaxPay
        BY <1>3, <4>2
      <4>4. new \in [Dividends -> 0 .. MaxPay]
        BY <4>3
      <4> HIDE DEF new
      <4> QED
        BY <1>3, <4>1, <4>4
    <3>4. recalc' = [recalc EXCEPT ![t] = NextYear(recalc[t])]
      BY <1>1, <2>8 DEF CommitDelete
    <3> QED
      BY <1>2, <1>3, <2>2, <2>7, <2>8, <3>1, <3>2, <3>3, <3>4 DEF CommitDelete
  <2>9. CASE Accumulate(t)
    <3> DEFINE r == [recalc[t] EXCEPT !.pc = "update", !.sum = RecordsTotal]
    <3>1. RecordsTotal \in Nat
      BY <1>3, RecordsTotalIsNatural
    <3>2. Fits(r)
      BY <1>1, <2>9, <3>1 DEF Accumulate, RecalcStages
    <3>3. recalc' = [recalc EXCEPT ![t] = r]
      BY <1>1, <2>9 DEF Accumulate
    <3> QED
      BY <1>2, <1>3, <2>2, <2>9, <3>2, <3>3 DEF Accumulate
  <2>10. CASE UpdateHolding(t)
    <3>1. recalc[t].pc # "idle" /\ cumulated' \in Nat
      BY <1>1, <2>10 DEF UpdateHolding
    <3>2. recalc' = [recalc EXCEPT ![t] = NextYear(recalc[t])]
      BY <1>1, <2>10 DEF UpdateHolding
    <3> QED
      BY <1>2, <1>3, <2>2, <2>7, <2>10, <3>1, <3>2 DEF UpdateHolding
  <2>11. CASE FailRecalc(t)
    <3>1. recalc' = [recalc EXCEPT ![t] = NoTask]
      BY <2>11 DEF FailRecalc
    <3> QED
      BY <1>2, <1>3, <1>4, <2>2, <2>11, <3>1 DEF FailRecalc
  <2>12. {dividend[d].year : d \in Dividends} \in SUBSET Years /\ \A y \in Years : {y} \in SUBSET Years
    BY <1>3
  <2> QED
    BY <1>6, <2>1, <2>3, <2>4, <2>5, <2>6, <2>8, <2>9, <2>10, <2>11, <2>12 DEF DRStep
<1> QED
  BY <1>5, <1>6 DEF DRNext

LEMMA NextYearRests ==
  ASSUME NEW task \in Recalculations
  PROVE  NextYear(task).pc \in {"idle", "read"}
BY DEF NextYear, NoTask, Recalculations

\* A task that is no longer clean goes on as before.
LEMMA UncleanGoesOn ==
  ASSUME NEW task \in Recalculations
  PROVE  LET new == [task EXCEPT !.clean = FALSE] IN
         /\ new.pc = task.pc /\ new.year = task.year /\ new.paid = task.paid
         /\ new.doomed = task.doomed /\ new.clean = FALSE
BY DEF Recalculations

LEMMA TransactionsStep ==
  ASSUME RecordsTyped, TransactionsFit, DRNext
  PROVE  TransactionsFit'
<1> USE DividendAssumption
<1>1. ASSUME UNCHANGED <<summary, item, overlapped>>,
             \A r \in Recalcs : recalc'[r].pc \in {"begin", "commit", "commitDelete"} =>
                \/ /\ recalc'[r].pc = recalc[r].pc /\ recalc'[r].year = recalc[r].year
                   /\ recalc'[r].paid = recalc[r].paid /\ recalc'[r].doomed = recalc[r].doomed
                \/ recalc'[r].pc = "begin" /\ Total(recalc'[r].paid) # 0
      PROVE  TransactionsFit'
  BY <1>1 DEF TransactionsFit, OneSummaryEach, Open, Saving, ItemsElsewhere
<1>2. ASSUME NEW d \in Dividends, NEW y \in Years, NEW pay \in 0 .. MaxPay, Correct(d, y, pay)
      PROVE  TransactionsFit'
  <2>1. \A r \in Recalcs : recalc'[r] = [recalc[r] EXCEPT !.clean = FALSE]
    BY <1>2 DEF Correct
  <2>2. \A r \in Recalcs : /\ recalc'[r].pc = recalc[r].pc /\ recalc'[r].year = recalc[r].year
                           /\ recalc'[r].paid = recalc[r].paid
                           /\ recalc'[r].doomed = recalc[r].doomed
    BY <2>1, UncleanGoesOn DEF RecordsTyped
  <2> QED
    BY <1>1, <1>2, <2>2 DEF Correct
<1>3. ASSUME NEW t \in Recalcs, DRStep(t)
      PROVE  TransactionsFit'
  <2>1. ASSUME NEW years, Begin(t, years)
        PROVE  TransactionsFit'
    <3>1. recalc'[t].pc = "read"
      BY <2>1 DEF Begin, NoTask
    <3>2. \A r \in Recalcs \ {t} : recalc'[r] = [recalc[r] EXCEPT !.clean = FALSE]
      BY <2>1 DEF Begin
    <3>3. \A r \in Recalcs \ {t} :
            /\ recalc'[r].pc = recalc[r].pc /\ recalc'[r].year = recalc[r].year
            /\ recalc'[r].paid = recalc[r].paid /\ recalc'[r].doomed = recalc[r].doomed
      BY <3>2, UncleanGoesOn DEF RecordsTyped
    <3> QED
      BY <1>1, <2>1, <3>1, <3>3 DEF Begin
  <2>2. CASE ReadDividends(t)
    <3>1. /\ recalc'[t].pc = "beginDelete"
             \/ (recalc'[t].pc = "begin" /\ Total(recalc'[t].paid) # 0)
          /\ \A r \in Recalcs \ {t} : recalc'[r] = recalc[r]
      BY <2>2 DEF ReadDividends, RecordsTyped, Recalculations
    <3> QED
      BY <1>1, <2>2, <3>1 DEF ReadDividends
  <2>3. CASE Accumulate(t) \/ UpdateHolding(t) \/ FailRecalc(t)
    <3>1. NextYear(recalc[t]).pc \in {"idle", "read"}
      BY NextYearRests DEF RecordsTyped, Recalculations
    <3>2. /\ recalc'[t].pc \in {"update", "idle", "read"}
          /\ \A r \in Recalcs \ {t} : recalc'[r] = recalc[r]
      BY <2>3, <3>1 DEF Accumulate, UpdateHolding, FailRecalc, RecordsTyped, Recalculations, NoTask
    <3> QED
      BY <1>1, <2>3, <3>2 DEF Accumulate, UpdateHolding, FailRecalc
  <2>4. CASE BeginSave(t)
    <3>1. /\ recalc[t].pc = "begin" /\ recalc'[t].pc = "commit"
          /\ recalc'[t].year = recalc[t].year /\ recalc'[t].paid = recalc[t].paid
          /\ recalc'[t].doomed = ItemsElsewhere(recalc[t].year, recalc[t].paid)
          /\ \A r \in Recalcs \ {t} : recalc'[r] = recalc[r]
      BY <2>4 DEF BeginSave, RecordsTyped, Recalculations
    <3>2. ~overlapped' => ~overlapped /\ \A o \in Recalcs : ~Open(o)
      BY <2>4 DEF BeginSave
    <3>3. ~overlapped' => \A o \in Recalcs : Open(o)' => o = t
      BY <3>1, <3>2 DEF Open
    <3>4. ItemsElsewhere(recalc[t].year, recalc[t].paid)'
            = ItemsElsewhere(recalc[t].year, recalc[t].paid)
      BY <2>4, <3>1 DEF ItemsElsewhere, BeginSave
    <3>5. \A r \in Recalcs : recalc'[r].pc \in {"begin", "commit"} => Total(recalc'[r].paid) # 0
      BY <3>1 DEF TransactionsFit
    <3>6. OneSummaryEach'
      BY <2>4, <3>2 DEF TransactionsFit, OneSummaryEach, BeginSave
    <3>7. ASSUME ~overlapped', NEW r \in Recalcs
          PROVE  /\ \A o \in Recalcs : Open(r)' /\ Open(o)' => r = o
                 /\ Saving(r)' => ItemsElsewhere(recalc[r].year, recalc[r].paid)'
                                    \subseteq recalc'[r].doomed
                 /\ recalc'[r].pc # "commitDelete"
      BY <3>1, <3>3, <3>4, <3>7 DEF Open, Saving
    <3> QED
      BY <3>5, <3>6, <3>7 DEF TransactionsFit
  <2>5. CASE BeginDelete(t)
    <3> DEFINE y == recalc[t].year
    <3>1. /\ recalc[t].pc = "beginDelete" /\ recalc'[t].pc = "commitDelete"
          /\ recalc'[t].year = y
          /\ recalc'[t].doomed = IF summary[y] = 0 THEN {}
                                 ELSE {<<y, d>> : d \in {d \in Dividends : item[y][d] # 0}}
          /\ \A r \in Recalcs \ {t} : recalc'[r] = recalc[r]
      BY <2>5 DEF BeginDelete, RecordsTyped, Recalculations
    <3>2. ~overlapped' => ~overlapped /\ \A o \in Recalcs : ~Open(o)
      BY <2>5 DEF BeginDelete
    <3>3. ~overlapped' => \A o \in Recalcs : Open(o)' => o = t
      BY <3>1, <3>2 DEF Open
    <3>4. y \in Years
      BY <3>1 DEF RecordsTyped, Recalculations, DRTypeOK
    <3>5. ~overlapped => \A d \in Dividends : item[y][d] # 0 => <<y, d>> \in recalc'[t].doomed
      BY <3>1, <3>4 DEF TransactionsFit, OneSummaryEach
    <3>6. \A r \in Recalcs : recalc'[r].pc \in {"begin", "commit"} => Total(recalc'[r].paid) # 0
      BY <3>1 DEF TransactionsFit
    <3>7. OneSummaryEach'
      BY <2>5, <3>2 DEF TransactionsFit, OneSummaryEach, BeginDelete
    <3>8. ASSUME ~overlapped', NEW r \in Recalcs
          PROVE  /\ \A o \in Recalcs : Open(r)' /\ Open(o)' => r = o
                 /\ ~Saving(r)'
                 /\ recalc'[r].pc = "commitDelete" => \A d \in Dividends :
                      item'[recalc'[r].year][d] # 0 => <<recalc'[r].year, d>> \in recalc'[r].doomed
      <4>1. item' = item
        BY <2>5 DEF BeginDelete
      <4> HIDE DEF y
      <4> QED
        BY <3>1, <3>2, <3>3, <3>5, <3>8, <4>1 DEF Open, Saving
    <3> QED
      BY <3>6, <3>7, <3>8 DEF TransactionsFit
  <2>6. CASE CommitSave(t)
    <3> DEFINE y == recalc[t].year
               paid == recalc[t].paid
               doomed == recalc[t].doomed
    <3>1. /\ recalc[t].pc = "commit" /\ recalc'[t].pc = "accumulate"
          /\ \A r \in Recalcs \ {t} : recalc'[r] = recalc[r]
          /\ overlapped' = overlapped
      BY <2>6 DEF CommitSave, Saving, RecordsTyped, Recalculations
    <3>2. y \in Years /\ Total(paid) # 0
      BY <3>1 DEF RecordsTyped, Recalculations, DRTypeOK, TransactionsFit
    <3>3. \A r \in Recalcs : recalc'[r].pc \in {"begin", "commit"} => Total(recalc'[r].paid) # 0
      BY <3>1 DEF TransactionsFit
    <3>4. ~overlapped' => \A o \in Recalcs : ~Open(o)' /\ ~Saving(o)' /\ recalc'[o].pc # "commitDelete"
      BY <3>1 DEF TransactionsFit, Open, Saving
    <3>5. /\ summary'[y] = Total(paid) /\ \A z \in Years \ {y} : summary'[z] = summary[z]
          /\ item'[y] = paid
          /\ \A z \in Years \ {y} : item'[z] =
                IF summary[z] = 0 THEN Nothing
                ELSE [d \in Dividends |-> IF <<z, d>> \in doomed THEN 0 ELSE item[z][d]]
      BY <2>6, <3>2 DEF CommitSave, ItemsSaved, RecordsTyped, Recalculations, DRTypeOK
    <3>6. ~overlapped => ItemsElsewhere(y, paid) \subseteq doomed
      BY <3>1 DEF TransactionsFit, Saving
    <3> HIDE DEF y, paid, doomed
    <3>7. \A z \in Years \ {y}, d \in Dividends : item'[z][d] # 0 =>
            summary[z] # 0 /\ item[z][d] # 0 /\ <<z, d>> \notin doomed
      BY <3>5 DEF Nothing
    <3>8. ~overlapped => \A z \in Years \ {y}, d \in Dividends : item'[z][d] # 0 => paid[d] = 0
      BY <3>6, <3>7 DEF ItemsElsewhere
    <3>9. OneSummaryEach'
      <4>1. SUFFICES ASSUME ~overlapped, NEW d \in Dividends, NEW x \in Years, item'[x][d] # 0
                     PROVE  summary'[x] # 0 /\ \A z \in Years \ {x} : item'[z][d] = 0
        BY <3>1 DEF OneSummaryEach
      <4>2. CASE x = y
        BY <3>2, <3>5, <3>8, <4>1, <4>2
      <4>3. CASE x # y
        <5>1. summary[x] # 0 /\ item[x][d] # 0 /\ paid[d] = 0
          BY <3>7, <3>8, <4>1, <4>3
        <5>2. \A z \in Years \ {x} : item[z][d] = 0
          BY <4>1, <5>1 DEF TransactionsFit, OneSummaryEach
        <5> QED
          BY <3>5, <3>7, <4>3, <5>1, <5>2
      <4> QED
        BY <4>2, <4>3
    <3> QED
      BY <3>3, <3>4, <3>9 DEF TransactionsFit
  <2>7. CASE CommitDelete(t)
    <3> DEFINE y == recalc[t].year
               doomed == recalc[t].doomed
    <3>1. NextYear(recalc[t]).pc \in {"idle", "read"}
      BY NextYearRests DEF RecordsTyped, Recalculations
    <3>2. /\ recalc[t].pc = "commitDelete" /\ recalc'[t].pc \in {"idle", "read"}
          /\ \A r \in Recalcs \ {t} : recalc'[r] = recalc[r]
          /\ overlapped' = overlapped
      BY <2>7, <3>1 DEF CommitDelete, RecordsTyped, Recalculations
    <3>3. y \in Years
      BY <3>2 DEF RecordsTyped, Recalculations, DRTypeOK
    <3>4. \A r \in Recalcs : recalc'[r].pc \in {"begin", "commit"} => Total(recalc'[r].paid) # 0
      BY <3>2 DEF TransactionsFit
    <3>5. ~overlapped' => \A o \in Recalcs : ~Open(o)' /\ ~Saving(o)' /\ recalc'[o].pc # "commitDelete"
      BY <3>2 DEF TransactionsFit, Open, Saving
    <3>6. ~overlapped => \A d \in Dividends : item[y][d] # 0 => <<y, d>> \in doomed
      BY <3>2 DEF TransactionsFit
    <3>7. /\ \A z \in Years \ {y} : summary'[z] = summary[z] /\ item'[z] = item[z]
          /\ item'[y] = [d \in Dividends |-> IF <<y, d>> \in doomed THEN 0 ELSE item[y][d]]
      BY <2>7, <3>3 DEF CommitDelete, RecordsTyped, Recalculations, DRTypeOK
    <3> HIDE DEF y, doomed
    <3>8. ~overlapped => \A d \in Dividends : item'[y][d] = 0
      BY <3>6, <3>7
    <3>9. OneSummaryEach'
      <4>1. SUFFICES ASSUME ~overlapped, NEW d \in Dividends, NEW x \in Years, item'[x][d] # 0
                     PROVE  summary'[x] # 0 /\ \A z \in Years \ {x} : item'[z][d] = 0
        BY <3>2 DEF OneSummaryEach
      <4>2. x # y /\ item[x][d] # 0
        BY <3>7, <3>8, <4>1
      <4>3. summary[x] # 0 /\ \A z \in Years \ {x} : item[z][d] = 0
        BY <4>1, <4>2 DEF TransactionsFit, OneSummaryEach
      <4> QED
        BY <3>7, <3>8, <4>1, <4>2, <4>3
    <3> QED
      BY <3>4, <3>5, <3>9 DEF TransactionsFit
  <2> QED
    BY <1>3, <2>1, <2>2, <2>3, <2>4, <2>5, <2>6, <2>7 DEF DRStep
<1> QED
  BY <1>2, <1>3 DEF DRNext

LEMMA NextYearOfClean ==
  ASSUME NEW task \in Recalculations, NextYear(task).clean
  PROVE  /\ task.clean
         /\ NextYear(task).pc = "read"
         /\ NextYear(task).done = task.done \cup {task.year}
BY DEF NextYear, NoTask, Recalculations

LEMMA SettledStays ==
  ASSUME UNCHANGED <<dividend, summary, item>>
  PROVE  /\ \A y : YearSettled(y)' = YearSettled(y)
         /\ \A y : Payout(y)' = Payout(y)
         /\ RecordsTotal' = RecordsTotal
BY DEF YearSettled, Payout, RecordsTotal

LEMMA CleanStep ==
  ASSUME RecordsInvariant, DRNext, NEW t \in Recalcs, recalc'[t].clean
  PROVE  CleanFits(t)'
<1>1. /\ \A r \in Recalcs : recalc[r] \in Recalculations
      /\ \A r \in Recalcs : recalc[r].clean => CleanFits(r)
  BY DEF RecordsInvariant, RecordsTyped
<1>2. \A d \in Dividends, y \in Years, pay \in 0 .. MaxPay : ~Correct(d, y, pay)
  BY <1>1, UncleanGoesOn DEF Correct
<1>3. ASSUME NEW o \in Recalcs \ {t}, DRStep(o)
      PROVE  FALSE
  <2>1. ASSUME NEW years, Begin(o, years)
        PROVE  FALSE
    <3>1. recalc'[t] = [recalc[t] EXCEPT !.clean = FALSE]
      BY <2>1 DEF Begin
    <3> QED
      BY <1>1, <3>1, UncleanGoesOn
  <2>2. recalc'[t] = recalc[t] /\ recalc[o].pc # "idle"
    BY <1>1, <1>3, <2>1 DEF DRStep, ReadDividends, BeginSave, CommitSave, BeginDelete,
       CommitDelete, Accumulate, UpdateHolding, FailRecalc, Saving, RecordsInvariant, RecordsTyped
  <2> QED
    BY <1>1, <2>2 DEF CleanFits
<1>4. ASSUME NEW years, Begin(t, years)
      PROVE  CleanFits(t)'
  <2>1. recalc'[t].pc = "read" /\ recalc'[t].done = {}
    BY <1>4 DEF Begin, NoTask
  <2>2. recalc'[t].clean = (\A o \in Recalcs : recalc[o].pc = "idle")
    BY <1>4 DEF Begin, NoTask
  <2>3. \A o \in Recalcs \ {t} : recalc'[o].pc = recalc[o].pc
    BY <1>1, <1>4, UncleanGoesOn DEF Begin
  <2> QED
    BY <2>1, <2>2, <2>3 DEF CleanFits
<1>5. ASSUME DRStep(t), \A years : ~Begin(t, years)
      PROVE  CleanFits(t)'
  <2> PICK year, paid : year = recalc[t].year /\ paid = recalc[t].paid
    OBVIOUS
  <2> DEFINE OnlyThis == /\ recalc[t].pc # "idle"
                         /\ \A o \in Recalcs \ {t} : recalc'[o] = recalc[o]
                         /\ dividend' = dividend
  <2>1. OnlyThis
    <3>0. recalc \in [Recalcs -> Recalculations]
      BY DEF RecordsInvariant, RecordsTyped
    <3>1. ReadDividends(t) \/ BeginSave(t) \/ BeginDelete(t) \/ Accumulate(t) => OnlyThis
      BY <3>0 DEF ReadDividends, BeginSave, BeginDelete, Accumulate
    <3>2. CommitSave(t) => OnlyThis
      BY <3>0 DEF CommitSave, Saving
    <3>3. CommitDelete(t) \/ UpdateHolding(t) \/ FailRecalc(t) => OnlyThis
      BY <3>0 DEF CommitDelete, UpdateHolding, FailRecalc
    <3> QED
      BY <1>5, <3>1, <3>2, <3>3 DEF DRStep
  <2>2. ~FailRecalc(t)
    BY <1>1 DEF FailRecalc, NoTask, RecordsInvariant, RecordsTyped
  <2>3. recalc[t].clean /\ CleanFits(t)
    <3>1. CASE ReadDividends(t) \/ BeginSave(t) \/ BeginDelete(t) \/ Accumulate(t)
      BY <1>1, <3>1
      DEF ReadDividends, BeginSave, BeginDelete, Accumulate, Recalculations, RecordsInvariant,
          RecordsTyped
    <3>2. CASE CommitSave(t)
      BY <1>1, <3>2 DEF CommitSave, Recalculations, RecordsInvariant, RecordsTyped
    <3>3. CASE CommitDelete(t) \/ UpdateHolding(t)
      <4>1. recalc'[t] = NextYear(recalc[t])
        BY <3>3 DEF CommitDelete, UpdateHolding, RecordsInvariant, RecordsTyped
      <4> QED
        BY <1>1, <4>1, NextYearOfClean
    <3> QED
      BY <1>1, <1>5, <2>2, <3>1, <3>2, <3>3 DEF DRStep
  <2>4. \A o \in Recalcs \ {t} : recalc'[o].pc = "idle"
    BY <2>1, <2>3 DEF CleanFits
  <2>5. CASE ReadDividends(t)
    <3>1. /\ recalc'[t].paid = Payout(year) /\ recalc'[t].done = recalc[t].done
          /\ recalc'[t].year = year
          /\ \/ recalc'[t].pc = "beginDelete" /\ Total(recalc'[t].paid) = 0
             \/ recalc'[t].pc = "begin"
      BY <2>5 DEF ReadDividends, RecordsInvariant, RecordsTyped, Recalculations
    <3>2. UNCHANGED <<dividend, summary, item>>
      BY <2>5 DEF ReadDividends
    <3> QED
      BY <2>3, <2>4, <3>1, <3>2, SettledStays DEF CleanFits
  <2>6. CASE BeginSave(t)
    <3>1. /\ recalc'[t].paid = paid /\ recalc'[t].done = recalc[t].done
          /\ recalc'[t].year = year /\ recalc'[t].pc = "commit"
          /\ recalc'[t].doomed = ItemsElsewhere(year, paid)
          /\ recalc[t].pc = "begin"
      BY <2>6 DEF BeginSave, RecordsInvariant, RecordsTyped, Recalculations
    <3>2. UNCHANGED <<dividend, summary, item>>
      BY <2>6 DEF BeginSave
    <3>3. \A yd \in recalc'[t].doomed : yd[1] # year /\ paid[yd[2]] # 0
      BY <3>1 DEF ItemsElsewhere
    <3> QED
      BY <2>3, <2>4, <3>1, <3>2, <3>3, SettledStays DEF CleanFits
  <2>7. CASE BeginDelete(t)
    <3>1. /\ recalc'[t].paid = paid /\ recalc'[t].done = recalc[t].done
          /\ recalc'[t].year = year /\ recalc'[t].pc = "commitDelete"
          /\ recalc[t].pc = "beginDelete"
      BY <2>7 DEF BeginDelete, RecordsInvariant, RecordsTyped, Recalculations
    <3>2. UNCHANGED <<dividend, summary, item>>
      BY <2>7 DEF BeginDelete
    <3> QED
      BY <2>3, <2>4, <3>1, <3>2, SettledStays DEF CleanFits
  <2>8. CASE Accumulate(t)
    <3>1. /\ recalc'[t].done = recalc[t].done /\ recalc'[t].year = year
          /\ recalc'[t].pc = "update" /\ recalc[t].pc = "accumulate"
          /\ recalc'[t].sum = RecordsTotal
      BY <2>8 DEF Accumulate, RecordsInvariant, RecordsTyped, Recalculations
    <3>2. UNCHANGED <<dividend, summary, item>>
      BY <2>8 DEF Accumulate
    <3> QED
      BY <2>3, <2>4, <3>1, <3>2, SettledStays DEF CleanFits
  <2>9. CASE UpdateHolding(t)
    <3>1. recalc'[t] = NextYear(recalc[t]) /\ recalc[t].pc = "update"
      BY <2>9 DEF UpdateHolding, RecordsInvariant, RecordsTyped
    <3>2. recalc'[t].pc = "read" /\ recalc'[t].done = recalc[t].done \cup {year}
      BY <1>1, <3>1, NextYearOfClean
    <3>3. UNCHANGED <<dividend, summary, item>>
      BY <2>9 DEF UpdateHolding
    <3> QED
      BY <2>3, <2>4, <3>1, <3>2, <3>3, SettledStays DEF CleanFits
  <2>10. CASE CommitDelete(t)
    <3>1. recalc'[t] = NextYear(recalc[t]) /\ recalc[t].pc = "commitDelete"
      BY <2>10 DEF CommitDelete, RecordsInvariant, RecordsTyped
    <3>2. recalc'[t].pc = "read" /\ recalc'[t].done = recalc[t].done \cup {year}
      BY <1>1, <3>1, NextYearOfClean
    <3>3. /\ \A z \in Years \ {year} : summary'[z] = summary[z] /\ item'[z] = item[z]
          /\ summary'[year] = 0
      <4>1. year \in Years
        BY <3>1 DEF RecordsInvariant, RecordsTyped, DRTypeOK
      <4> QED
        BY <2>10, <4>1 DEF CommitDelete, RecordsInvariant, RecordsTyped, DRTypeOK
    <3>4. Total(Payout(year)) = 0
      BY <2>3, <3>1 DEF CleanFits
    <3>5. \A y : Payout(y)' = Payout(y)
      BY <2>1 DEF Payout
    <3>6. YearSettled(year)'
      BY <3>3, <3>4, <3>5 DEF YearSettled
    <3>7. ASSUME NEW y \in recalc[t].done, y # year
          PROVE  YearSettled(y)'
      <4>1. y \in Years
        BY <1>1 DEF Recalculations
      <4>2. YearSettled(y)
        BY <2>3 DEF CleanFits
      <4> QED
        BY <3>3, <3>5, <3>7, <4>1, <4>2 DEF YearSettled
    <3> QED
      BY <2>4, <3>2, <3>6, <3>7 DEF CleanFits
  <2>11. CASE CommitSave(t)
    <3> PICK doomed : doomed = recalc[t].doomed
      OBVIOUS
    <3>1. /\ recalc[t].pc = "commit" /\ recalc'[t].pc = "accumulate"
          /\ recalc'[t].done = recalc[t].done /\ recalc'[t].year = year
      BY <2>11 DEF CommitSave, Saving, RecordsInvariant, RecordsTyped, Recalculations
    <3>2. year \in Years /\ Total(paid) # 0
      BY <3>1 DEF RecordsInvariant, RecordsTyped, DRTypeOK, TransactionsFit
    <3>3. paid = Payout(year) /\ \A yd \in doomed : yd[1] # year /\ paid[yd[2]] # 0
      BY <2>3, <3>1 DEF CleanFits
    <3>4. /\ summary'[year] = Total(paid) /\ \A z \in Years \ {year} : summary'[z] = summary[z]
          /\ item'[year] = paid
          /\ \A z \in Years \ {year} : item'[z] =
                IF summary[z] = 0 THEN Nothing
                ELSE [d \in Dividends |-> IF <<z, d>> \in doomed THEN 0 ELSE item[z][d]]
      BY <2>11, <3>2 DEF CommitSave, ItemsSaved, RecordsInvariant, RecordsTyped, DRTypeOK
    <3>5. \A y : Payout(y)' = Payout(y)
      BY <2>1 DEF Payout
    <3>6. YearSettled(year)'
      BY <3>3, <3>4, <3>5 DEF YearSettled
    <3>7. ASSUME NEW y \in recalc[t].done, y # year
          PROVE  YearSettled(y)'
      <4>1. y \in Years
        BY <1>1 DEF Recalculations
      <4>2. YearSettled(y) /\ summary'[y] = summary[y]
        BY <2>3, <3>4, <3>7, <4>1 DEF CleanFits
      <4>3. ASSUME summary[y] # 0
            PROVE  item'[y] = Payout(y)
        <5>1. item[y] = Payout(y)
          BY <4>2, <4>3 DEF YearSettled
        <5>2. \A d \in Dividends : <<y, d>> \in doomed => dividend[d].year = year
          BY <3>3 DEF Payout
        <5>3. \A d \in Dividends : <<y, d>> \in doomed => item[y][d] = 0
          BY <3>7, <5>1, <5>2 DEF Payout
        <5>4. item'[y] = [d \in Dividends |-> IF <<y, d>> \in doomed THEN 0 ELSE item[y][d]]
          BY <3>4, <3>7, <4>1, <4>3
        <5>5. item'[y] = [d \in Dividends |-> Payout(y)[d]]
          BY <5>1, <5>3, <5>4
        <5> QED
          BY <5>5 DEF Payout
      <4> QED
        BY <3>5, <4>2, <4>3 DEF YearSettled
    <3>8. \A y \in Years : summary'[y] = 0 => item'[y] = Nothing
      BY <3>2, <3>4
    <3> QED
      BY <2>3, <2>4, <3>1, <3>6, <3>7, <3>8 DEF CleanFits
  <2> QED
    BY <1>5, <2>2, <2>5, <2>6, <2>7, <2>8, <2>9, <2>10, <2>11 DEF DRStep
<1> QED
  BY <1>2, <1>3, <1>4, <1>5 DEF DRNext, DRStep

LEMMA RecordsStart == DRInit => RecordsInvariant
<1> SUFFICES ASSUME DRInit PROVE RecordsInvariant
  OBVIOUS
<1> USE DividendAssumption, NothingIsPays
<1>1. NoTask \in Recalculations
  BY DEF NoTask, Recalculations, RecalcStages
<1>2. RecordsTyped
  <2>1. summary \in [Years -> Nat] /\ item \in [Years -> [Dividends -> 0 .. MaxPay]]
    BY DEF DRInit, Pays
  <2>2. \A t \in Recalcs : recalc[t].pc = "idle" /\ recalc[t].doomed = {}
    BY DEF DRInit, NoTask
  <2>3. recalc \in [Recalcs -> Recalculations]
    BY <1>1 DEF DRInit
  <2>4. DRTypeOK
    <3>1. /\ dividend \in [Dividends -> [year : Years, pay : 0 .. MaxPay]]
          /\ cumulated = 0 /\ corrections = 0 /\ overlapped = FALSE /\ failed = FALSE
      BY DEF DRInit
    <3>2. \A t \in Recalcs : recalc[t].doomed \subseteq Years \X Dividends
      BY <2>2
    <3>3. 0 \in 0 .. MaxCorrections
      OBVIOUS
    <3> QED
      BY ONLY <2>1, <2>2, <3>1, <3>2, <3>3 DEF DRTypeOK
  <2> QED
    BY <2>3, <2>4 DEF RecordsTyped
<1>3. TransactionsFit
  BY DEF DRInit, TransactionsFit, OneSummaryEach, Open, Saving, NoTask, Nothing
<1> QED
  BY <1>2, <1>3 DEF DRInit, RecordsInvariant, NoTask

\* The invariant holds in every state of the recalculations.
LEMMA RecordsInvariantHolds == DRSpec => []RecordsInvariant
<1>1. RecordsInvariant /\ [DRNext]_drVars => RecordsInvariant'
  <2>1. SUFFICES ASSUME RecordsInvariant, [DRNext]_drVars
                 PROVE  RecordsInvariant'
    OBVIOUS
  <2>2. CASE DRNext
    <3>1. RecordsTyped' /\ TransactionsFit'
      BY <2>1, <2>2, TypedStep, TransactionsStep DEF RecordsInvariant
    <3>2. \A t \in Recalcs : recalc'[t].clean => CleanFits(t)'
      BY <2>1, <2>2, CleanStep
    <3> QED
      BY <3>1, <3>2 DEF RecordsInvariant
  <2>3. CASE UNCHANGED drVars
    <3>1. UNCHANGED <<dividend, summary, item, cumulated, recalc, corrections, overlapped, failed>>
      BY <2>3 DEF drVars
    <3>2. RecordsTyped' /\ TransactionsFit'
      BY <2>1, <3>1 DEF RecordsInvariant, RecordsTyped, DRTypeOK, TransactionsFit,
         OneSummaryEach, Open, Saving, ItemsElsewhere
    <3>3. \A t \in Recalcs : CleanFits(t) => CleanFits(t)'
      BY <3>1, SettledStays DEF CleanFits
    <3> QED
      BY <2>1, <3>1, <3>2, <3>3 DEF RecordsInvariant
  <2> QED
    BY <2>1, <2>2, <2>3
<1> QED
  BY <1>1, RecordsStart, PTL DEF DRSpec

LEMMA InvariantIsExact == RecordsInvariant => RecordsAreExact
<1> SUFFICES ASSUME RecordsInvariant PROVE RecordsAreExact
  OBVIOUS
<1>0. ASSUME NEW t \in Recalcs, recalc[t].pc = "update", recalc[t].clean
      PROVE  recalc[t].sum = RecordsTotal
  <2>1. CleanFits(t)
    BY <1>0 DEF RecordsInvariant
  <2> QED
    BY <1>0, <2>1 DEF CleanFits
<1>1. SUFFICES ASSUME NEW t \in Recalcs, recalc[t].pc = "update", recalc[t].clean,
                      NEW y \in recalc[t].done \cup {recalc[t].year}
               PROVE  /\ \A d \in Dividends :
                           item[y][d] = IF dividend[d].year = y THEN dividend[d].pay ELSE 0
                      /\ summary[y] = Total(item[y])
  BY <1>0 DEF RecordsAreExact, UndisturbedIsExact, RecordsInvariant, TransactionsFit
<1>2. y \in Years
  BY <1>1 DEF RecordsInvariant, RecordsTyped, DRTypeOK, Recalculations
<1>3. YearSettled(y) /\ (summary[y] = 0 => item[y] = Nothing)
  BY <1>1, <1>2 DEF RecordsInvariant, CleanFits
<1>4. Payout(y) \in Pays
  BY <1>1, PayoutIsPays DEF RecordsInvariant
<1>5. item[y] = Payout(y)
  <2>1. CASE summary[y] # 0
    BY <1>3, <2>1 DEF YearSettled
  <2>2. CASE summary[y] = 0
    <3>1. \A d \in Dividends : Payout(y)[d] = 0
      BY <1>3, <1>4, <2>2, TotalIsNatural DEF YearSettled
    <3>2. Payout(y) = [d \in Dividends |-> Payout(y)[d]]
      BY DEF Payout
    <3> HIDE DEF Payout
    <3> QED
      BY <1>3, <2>2, <3>1, <3>2 DEF Nothing
  <2> QED
    BY <2>1, <2>2
<1>6. summary[y] = Total(item[y])
  BY <1>3, <1>5 DEF YearSettled
<1> QED
  BY <1>5, <1>6 DEF Payout

\* The records of received dividends have the types DRTypeOK gives them, and so a year
\* that is being recalculated is never still on the list of its recalculation.
THEOREM RecordsTypeCorrect == DRSpec => []DRTypeOK
<1>1. RecordsInvariant => DRTypeOK
  BY DEF RecordsInvariant, RecordsTyped
<1> QED
  BY <1>1, RecordsInvariantHolds, PTL

\* Whatever recalculations run at once, fail half-way or meet a corrected dividend: as long
\* as no two transactions were open at once no dividend is counted in two years, and an
\* undisturbed recalculation leaves exactly what the dividends pay.
THEOREM RecordsExact == DRSpec => []RecordsAreExact
BY InvariantIsExact, RecordsInvariantHolds, PTL

-----------------------------------------------------------------------------
(* The statements of a year.                                               *)

Rows == [stored : BOOLEAN, eps : Int, detailed : BOOLEAN, ratios : BOOLEAN]

EpsStates == [pc : {"rest", "select", "fetch", "earlier", "save"}, todo : SUBSET QuartersOfYear,
              cumulative : Int, before : Int]
YahooStates == [pc : {"rest", "select", "visit", "save", "zeros", "ratios"},
                todo : SUBSET QuartersOfYear, profile : StatementKeys, lacking : BOOLEAN]
YearlyStates == [pc : {"rest", "fetch", "save", "end"}, absent : BOOLEAN, lacking : BOOLEAN]
CompleteStates == [pc : {"rest", "save", "zeros", "ratios", "end"}, absent : BOOLEAN,
                   lacking : BOOLEAN]

StatementsTyped ==
    /\ FSTypeOK
    /\ eps \in EpsStates /\ yahoo \in YahooStates
    /\ yearly \in YearlyStates /\ complete \in CompleteStates
    /\ \A k \in StatementKeys : statement[k].detailed => statement[k].stored
    /\ eps.pc # "rest" => eps.todo # {}
    /\ yahoo.pc # "rest" => yahoo.todo # {}

\* A quarter is in the table, or it or an earlier one was not taken in time.
InTable(q) == statement[q].stored \/ lapse <= q

\* What the job for the EPS has in hand: at most two quarters in a row, the first of them
\* due, the earlier ones in the table, and the figures right unless something has lapsed.
EpsFits ==
    eps.pc # "rest" =>
        /\ \A a \in eps.todo : a <= due + 1
        /\ \A a, b \in eps.todo : a < b => b = a + 1 /\ a <= due
        /\ eps.pc # "save" => eps.before = 0
        /\ \A q \in QuartersOfYear : q = NextTarget(eps.todo) =>
            /\ \A p \in QuartersOfYear : p < q => InTable(p)
            /\ eps.pc \in {"earlier", "save"} => eps.cumulative = Cumulative(q) \/ lapse <= q
            /\ eps.pc = "save" => eps.before = Cumulative(q - 1) \/ lapse <= q

StatementsInvariant ==
    /\ StatementsTyped
    /\ \A q \in QuartersOfYear : q < due => InTable(q)
    /\ EpsErrorsFollowLapses
    /\ EpsFits

\* The first of some quarters.
LEMMA FirstTarget ==
  ASSUME NEW todo \in SUBSET QuartersOfYear, todo # {}
  PROVE  NextTarget(todo) \in todo /\ \A q \in todo : NextTarget(todo) <= q
<1>1. IsFiniteSet(QuartersOfYear)
  BY FS_Interval, StatementsAssumption DEF QuartersOfYear
<1>2. IsFiniteSet(todo)
  BY <1>1, FS_Subset
<1>3. \A q \in todo : q \in Int
  BY DEF QuartersOfYear
<1> QED
  BY <1>2, <1>3, MinIsLeast DEF NextTarget

\* A lapse is remembered with the first quarter it concerns.
LEMMA LapseOf ==
  ASSUME NEW l \in 1 .. LastQuarter + 1, NEW q \in QuartersOfYear
  PROVE  Min({l, q}) \in 1 .. LastQuarter + 1 /\ Min({l, q}) <= l /\ Min({l, q}) <= q
<1>1. IsFiniteSet({l, q})
  <2>1. IsFiniteSet({l}) /\ {l, q} = {l} \cup {q}
    BY FS_Singleton
  <2> QED
    BY <2>1, FS_AddElement
<1>2. \A x \in {l, q} : x \in Int
  BY DEF QuartersOfYear
<1>3. Min({l, q}) \in {l, q} /\ \A x \in {l, q} : Min({l, q}) <= x
  BY <1>1, <1>2, MinIsLeast
<1> QED
  BY <1>3, StatementsAssumption DEF QuartersOfYear

\* What the exchange shows for a quarter is what it shows for the one before and the quarter.
LEMMA CumulativeGrows ==
  ASSUME own \in [QuartersOfYear -> {-1, 1}], NEW q \in QuartersOfYear
  PROVE  /\ Cumulative(q) \in Int /\ Cumulative(q - 1) \in Int
         /\ Cumulative(q) = own[q] + Cumulative(q - 1)
         /\ Cumulative(0) = 0
<1>1. IsFiniteSet(1 .. q) /\ IsFiniteSet(1 .. (q - 1))
  BY FS_Interval DEF QuartersOfYear
<1>2. \A x \in 1 .. q : own[x] \in Int
  BY StatementsAssumption DEF QuartersOfYear
<1>3. (1 .. q) \ {q} = 1 .. (q - 1) /\ q \in 1 .. q /\ 1 .. 0 = {}
  BY DEF QuartersOfYear
<1>4. SumFunctionOnSet(own, 1 .. q) = own[q] + SumFunctionOnSet(own, (1 .. q) \ {q})
  BY <1>1, <1>2, <1>3, SumTakesOut
<1>5. SumFunctionOnSet(own, 1 .. q) \in Int /\ SumFunctionOnSet(own, 1 .. (q - 1)) \in Int
  <2>1. \A x \in 1 .. (q - 1) : own[x] \in Int
    BY <1>2 DEF QuartersOfYear
  <2> QED
    BY <1>1, <1>2, <2>1, SumIsInteger
<1>6. SumFunctionOnSet(own, {}) = 0
  BY SumOfNone
<1>7. Cumulative(0) = 0
  BY <1>3, <1>6 DEF Cumulative
<1>8. /\ Cumulative(q) = SumFunctionOnSet(own, 1 .. q)
      /\ Cumulative(q - 1) = SumFunctionOnSet(own, (1 .. q) \ {q})
  BY <1>3 DEF Cumulative
<1> QED
  BY <1>3, <1>4, <1>5, <1>7, <1>8

\* The sum of the earlier quarters is right when they are in the table without an error.
LEMMA EarlierAreRight ==
  ASSUME StatementsTyped, EpsErrorsFollowLapses, NEW q \in QuartersOfYear,
         \A p \in QuartersOfYear : p < q => InTable(p)
  PROVE  /\ CumulativeEps(SmallerQuarters(q)) \in Int
         /\ \/ CumulativeEps(SmallerQuarters(q)) = Cumulative(q - 1)
            \/ lapse <= q
<1> DEFINE stored == [p \in QuartersOfYear |-> statement[p].eps]
<1>1. IsFiniteSet(1 .. (q - 1)) /\ \A p \in 1 .. (q - 1) : p \in QuartersOfYear /\ p < q
  BY FS_Interval, StatementsAssumption DEF QuartersOfYear
<1>2. \A p \in QuartersOfYear : stored[p] \in Int /\ stored[p] = statement[p].eps
  BY DEF StatementsTyped, FSTypeOK, StatementKeys
<1> HIDE DEF stored
<1>3. SumFunctionOnSet(stored, 1 .. (q - 1)) \in Int
  BY <1>1, <1>2, SumIsInteger
<1>4. ASSUME ~(lapse <= q)
      PROVE  SumFunctionOnSet(stored, 1 .. (q - 1)) = SumFunctionOnSet(own, 1 .. (q - 1))
  <2>1. \A p \in 1 .. (q - 1) : ~(lapse <= p)
    <3>1. lapse \in 1 .. LastQuarter + 1
      BY DEF StatementsTyped, FSTypeOK
    <3> QED
      BY <1>4, <3>1, StatementsAssumption DEF QuartersOfYear
  <2>2. \A p \in 1 .. (q - 1) : stored[p] = own[p]
    BY <1>1, <1>2, <2>1 DEF InTable, EpsErrorsFollowLapses
  <2> QED
    BY <1>1, <2>2, SumsAgree
<1>5. CumulativeEps(SmallerQuarters(q)) = SumFunctionOnSet(stored, 1 .. (q - 1))
  BY DEF CumulativeEps, SmallerQuarters, stored
<1> QED
  BY <1>3, <1>4, <1>5 DEF Cumulative

\* What the rows of the table are.
LEMMA RowTypes ==
  ASSUME StatementsTyped
  PROVE  /\ statement \in [StatementKeys -> Rows]
         /\ \A k \in StatementKeys : statement[k].detailed => statement[k].stored
         /\ own \in [QuartersOfYear -> {-1, 1}]
         /\ QuartersOfYear \subseteq StatementKeys /\ Annual \in StatementKeys
         /\ Annual \notin QuartersOfYear
         /\ lapse \in 1 .. LastQuarter + 1
<1>1. statement \in [StatementKeys -> Rows]
  BY DEF StatementsTyped, FSTypeOK, Rows
<1>2. own \in [QuartersOfYear -> {-1, 1}] /\ lapse \in 1 .. LastQuarter + 1
  BY DEF StatementsTyped, FSTypeOK
<1>3. \A k \in StatementKeys : statement[k].detailed => statement[k].stored
  BY DEF StatementsTyped
<1>4. /\ QuartersOfYear \subseteq StatementKeys /\ Annual \in StatementKeys
      /\ Annual \notin QuartersOfYear
  BY StatementsAssumption DEF StatementKeys, Annual, QuartersOfYear
<1> QED
  BY <1>1, <1>2, <1>3, <1>4

\* What a step may do to the table: rows stay, with their details, and an error that is
\* new has a lapse behind it.
RowsKept ==
    /\ statement' \in [StatementKeys -> Rows]
    /\ lapse' \in 1 .. LastQuarter + 1 /\ lapse' <= lapse
    /\ own' = own
    /\ \A k \in StatementKeys :
        /\ statement'[k].detailed => statement'[k].stored
        /\ statement[k].stored => statement'[k].stored
        /\ statement[k].detailed => statement'[k].detailed
    /\ \A q \in QuartersOfYear :
        \/ statement'[q].eps = statement[q].eps /\ (statement'[q].stored => statement[q].stored)
        \/ statement'[q].eps = own[q]
        \/ lapse' <= q

\* The row of a key may become another.
MayBecome(k, row) ==
    /\ row \in Rows
    /\ row.detailed => row.stored
    /\ statement[k].stored => row.stored
    /\ statement[k].detailed => row.detailed
    /\ k \in QuartersOfYear =>
        \/ row.eps = own[k]
        \/ row.eps = statement[k].eps /\ (row.stored => statement[k].stored)

\* One row is written.
LEMMA RowWritten ==
  ASSUME StatementsTyped, UNCHANGED <<own, lapse>>,
         NEW k \in StatementKeys, NEW row, MayBecome(k, row),
         statement' = [statement EXCEPT ![k] = row]
  PROVE  RowsKept
<1>1. /\ statement \in [StatementKeys -> Rows] /\ QuartersOfYear \subseteq StatementKeys
      /\ lapse \in 1 .. LastQuarter + 1
  BY RowTypes
<1>2. statement'[k] = row /\ \A j \in StatementKeys \ {k} : statement'[j] = statement[j]
  BY <1>1
<1>3. lapse' = lapse /\ lapse' <= lapse /\ own' = own
  BY <1>1, StatementsAssumption
<1>4. statement' \in [StatementKeys -> Rows]
  BY <1>1 DEF MayBecome
<1>5. ASSUME NEW j \in StatementKeys
      PROVE  /\ statement'[j].detailed => statement'[j].stored
             /\ statement[j].stored => statement'[j].stored
             /\ statement[j].detailed => statement'[j].detailed
             /\ j \in QuartersOfYear =>
                    \/ /\ statement'[j].eps = statement[j].eps
                       /\ statement'[j].stored => statement[j].stored
                    \/ statement'[j].eps = own[j]
  BY <1>2, RowTypes DEF MayBecome
<1> QED
  BY <1>1, <1>3, <1>4, <1>5 DEF RowsKept

\* No row is written, whatever lapses.
LEMMA RowsLeft ==
  ASSUME StatementsTyped, UNCHANGED <<own, statement>>,
         \/ lapse' = lapse
         \/ \E q \in QuartersOfYear : lapse' = Min({lapse, q})
  PROVE  RowsKept
<1>1. statement \in [StatementKeys -> Rows] /\ lapse \in 1 .. LastQuarter + 1
  BY RowTypes
<1>2. lapse' \in 1 .. LastQuarter + 1 /\ lapse' <= lapse
  <2>1. CASE lapse' = lapse
    BY <1>1, <2>1, StatementsAssumption
  <2>2. CASE lapse' # lapse
    <3>1. PICK q \in QuartersOfYear : lapse' = Min({lapse, q})
      BY <2>2
    <3> QED
      BY <1>1, <3>1, LapseOf
  <2> QED
    BY <2>1, <2>2
<1>3. own' = own /\ statement' = statement
  OBVIOUS
<1> QED
  BY <1>1, <1>2, <1>3, RowTypes DEF RowsKept

\* update_roe_and_roa_for_zero_values writes two columns of a row, or nothing.
LEMMA RatiosKeep ==
  ASSUME StatementsTyped, NEW k \in StatementKeys, NEW lacking,
         NEW answer, RatiosWritten(k, lacking, answer), UNCHANGED <<own, lapse>>
  PROVE  RowsKept
<1>1. CASE statement' = statement
  BY <1>1, RowsLeft
<1>2. CASE statement' = [statement EXCEPT ![k].ratios = (answer = "values")]
  <2> DEFINE ratios == answer = "values"
  <2>1. ratios \in BOOLEAN
    OBVIOUS
  <2> HIDE DEF ratios
  <2> PICK row : row = [statement[k] EXCEPT !.ratios = ratios]
    OBVIOUS
  <2>2. statement[k] \in Rows /\ statement' = [statement EXCEPT ![k] = row]
    BY <1>2, RowTypes DEF ratios
  <2>3. /\ row \in Rows /\ row.stored = statement[k].stored
        /\ row.detailed = statement[k].detailed /\ row.eps = statement[k].eps
    BY <2>1, <2>2 DEF Rows
  <2>4. /\ statement[k].stored => row.stored
        /\ statement[k].detailed => row.detailed
        /\ row.detailed => row.stored
    BY <2>3, RowTypes
  <2>5. MayBecome(k, row)
    BY <2>3, <2>4 DEF MayBecome
  <2> QED
    BY <2>2, <2>5, RowWritten
<1> QED
  BY <1>1, <1>2 DEF RatiosWritten

LEMMA EpsKeepsRows ==
  ASSUME StatementsTyped, EpsErrorsFollowLapses, EpsFits, EpsStep
  PROVE  RowsKept
<1>1. CASE eps.pc = "rest"
  BY <1>1, RowsLeft DEF EpsStep, EpsBegins, EpsSelects, EpsReadsEarlier, EpsFetches, EpsSaves,
     theYear
<1>2. CASE eps.pc # "rest"
  <2> PICK q : q = NextTarget(eps.todo)
    OBVIOUS
  <2>1. q \in QuartersOfYear
    BY <1>2, FirstTarget DEF StatementsTyped, FSTypeOK
  <2>2. CASE EpsSelects \/ EpsBegins
    BY <2>2, RowsLeft DEF EpsSelects, EpsBegins, theYear
  <2>3. CASE \E read \in BOOLEAN : EpsReadsEarlier(read)
    BY <2>1, <2>3, RowsLeft DEF EpsReadsEarlier, theYear
  <2>4. CASE \E figure \in {"sum", "unreadable", "none"} : EpsFetches(figure)
    BY <2>1, <2>4, RowsLeft DEF EpsFetches, theYear
  <2>5. ASSUME EpsSaves(FALSE)
        PROVE  RowsKept
    BY <2>1, <2>5, RowsLeft DEF EpsSaves, theYear
  <2>6. ASSUME EpsSaves(TRUE)
        PROVE  RowsKept
    <3> PICK value : value = eps.cumulative - eps.before
      OBVIOUS
    <3>1. /\ value \in Int
          /\ statement \in [StatementKeys -> Rows] /\ q \in StatementKeys
      BY <2>1, RowTypes DEF StatementsTyped, EpsStates
    <3>2. /\ statement' = [statement EXCEPT ![q] = EpsUpsert(statement[q], value)]
          /\ eps.pc = "save" /\ UNCHANGED <<own, lapse>>
      BY <2>6, <3>1 DEF EpsSaves, theYear
    <3> PICK row : row = EpsUpsert(statement[q], value)
      OBVIOUS
    <3>3. /\ row \in Rows
          /\ row.stored
          /\ statement[q].detailed => row.detailed
          /\ row.detailed => row.stored
          /\ row.eps = value
      BY <3>1 DEF EpsUpsert, Rows
    <3>4. CASE lapse <= q
      <4>1. statement' \in [StatementKeys -> Rows]
        BY <3>1, <3>2, <3>3
      <4>2. \A k \in StatementKeys \ {q} : statement'[k] = statement[k]
        BY <3>1, <3>2
      <4>3. statement'[q] = row
        BY <3>1, <3>2
      <4>4. lapse' = lapse /\ lapse' \in 1 .. LastQuarter + 1 /\ lapse' <= lapse /\ own' = own
        BY <3>2, RowTypes, StatementsAssumption
      <4>5. QuartersOfYear \subseteq StatementKeys
        BY RowTypes
      <4> QED
        BY <3>3, <3>4, <4>1, <4>2, <4>3, <4>4, <4>5, RowTypes DEF RowsKept
    <3>5. CASE ~(lapse <= q)
      <4>1. eps.cumulative = Cumulative(q) /\ eps.before = Cumulative(q - 1)
        BY <1>2, <2>1, <3>2, <3>5 DEF EpsFits
      <4>2. own \in [QuartersOfYear -> {-1, 1}]
        BY RowTypes
      <4>3. value = own[q]
        BY <2>1, <4>1, <4>2, CumulativeGrows
      <4>4. row.eps = own[q] /\ statement' = [statement EXCEPT ![q] = row]
        BY <3>2, <3>3, <4>3
      <4>5. MayBecome(q, row)
        BY <3>3, <4>4 DEF MayBecome
      <4> QED
        BY <3>1, <3>2, <4>4, <4>5, RowWritten
    <3> QED
      BY <3>4, <3>5
  <2> QED
    BY <2>2, <2>3, <2>4, <2>5, <2>6 DEF EpsStep
<1> QED
  BY <1>1, <1>2

LEMMA YahooKeepsRows ==
  ASSUME StatementsTyped, YahooStep
  PROVE  RowsKept
<1>1. CASE \/ \E targets \in SUBSET QuartersOfYear : YahooBegins(targets)
           \/ YahooSelects \/ YahooReadsZeros \/ YahooFails
           \/ \E shown \in 0 .. LastQuarter : YahooVisits(shown)
           \/ \E remembered \in BOOLEAN : YahooFindsNothing(remembered)
  BY <1>1, RowsLeft DEF YahooBegins, YahooSelects, YahooReadsZeros, YahooFails, YahooVisits,
     YahooFindsNothing, theYear
<1>2. ASSUME NEW ratios \in BOOLEAN, NEW flagged \in BOOLEAN, YahooSaves(ratios, flagged)
      PROVE  RowsKept
  <2> PICK r : r = yahoo.profile
    OBVIOUS
  <2>1. r \in StatementKeys
    BY DEF StatementsTyped, FSTypeOK
  <2>2. UNCHANGED <<own, lapse>>
    BY <1>2 DEF YahooSaves, theYear
  <2>3. CASE r = 0
    BY <1>2, <2>2, <2>3, RowsLeft DEF YahooSaves
  <2>4. CASE r # 0
    <3>1. r \in QuartersOfYear /\ own[r] \in Int
      BY <2>1, <2>4, RowTypes DEF StatementKeys, Annual
    <3> PICK row : row = FullRow(own[r], ratios)
      OBVIOUS
    <3>2. row \in Rows /\ row.stored /\ row.detailed /\ row.eps = own[r]
      BY <3>1 DEF FullRow, Rows
    <3>3. statement' = [statement EXCEPT ![r] = row]
      BY <1>2, <2>4 DEF YahooSaves
    <3>4. MayBecome(r, row)
      BY <3>2 DEF MayBecome
    <3> QED
      BY <2>1, <2>2, <3>3, <3>4, RowWritten
  <2> QED
    BY <2>3, <2>4
<1>3. ASSUME NEW answer, YahooWritesRatios(answer)
      PROVE  RowsKept
  <2>1. NextTarget(yahoo.todo) \in StatementKeys
    <3>1. yahoo.todo \in SUBSET QuartersOfYear /\ yahoo.todo # {}
      BY <1>3 DEF YahooWritesRatios, StatementsTyped, FSTypeOK
    <3> QED
      BY <3>1, FirstTarget, RowTypes
  <2> QED
    BY <1>3, <2>1, RatiosKeep DEF YahooWritesRatios, theYear
<1> QED
  BY <1>1, <1>2, <1>3 DEF YahooStep

LEMMA AnnualKeepsRows ==
  ASSUME StatementsTyped, AnnualStep
  PROVE  RowsKept
<1>0. /\ Annual \in StatementKeys /\ Annual \notin QuartersOfYear
      /\ statement \in [StatementKeys -> Rows] /\ own \in [QuartersOfYear -> {-1, 1}]
  BY RowTypes
<1>1. CASE \/ YearlyBegins \/ CompleteBegins \/ CompleteReadsZeros
           \/ \E flagged \in BOOLEAN : YearlyEnds(flagged) \/ CompleteEnds(flagged)
           \/ \E found \in BOOLEAN : YearlyFetches(found)
  BY <1>1, RowsLeft DEF YearlyBegins, CompleteBegins, CompleteReadsZeros, YearlyEnds,
     CompleteEnds, YearlyFetches, theYear
<1>2. ASSUME NEW value, value = Cumulative(LastQuarter)
      PROVE  value \in Int
  <2>1. LastQuarter \in QuartersOfYear
    BY StatementsAssumption DEF QuartersOfYear
  <2> QED
    BY <1>0, <1>2, <2>1, CumulativeGrows
<1> PICK value : value = Cumulative(LastQuarter)
  OBVIOUS
<1>3. ASSUME NEW saved \in BOOLEAN, YearlySaves(saved)
      PROVE  RowsKept
  <2>1. UNCHANGED <<own, lapse>>
    BY <1>3 DEF YearlySaves, theYear
  <2>2. CASE saved /\ ~statement[Annual].stored
    <3> PICK bare : bare = [NoStatement EXCEPT !.stored = TRUE, !.eps = value]
      OBVIOUS
    <3>1. bare \in Rows /\ bare.stored
      BY <1>2 DEF NoStatement, Rows
    <3>2. statement' = [statement EXCEPT ![Annual] = bare]
      BY <1>0, <1>3, <2>2 DEF YearlySaves, InsertAnnual
    <3>3. ~statement[Annual].detailed
      BY <1>0, <2>2, RowTypes
    <3>4. MayBecome(Annual, bare)
      BY <1>0, <2>2, <3>1, <3>3 DEF MayBecome
    <3> QED
      BY <1>0, <2>1, <3>2, <3>4, RowWritten
  <2>3. CASE saved /\ statement[Annual].stored
    BY <1>0, <1>3, <2>1, <2>3, RowsLeft DEF YearlySaves, InsertAnnual
  <2>4. CASE ~saved
    BY <1>3, <2>1, <2>4, RowsLeft DEF YearlySaves
  <2> QED
    BY <2>2, <2>3, <2>4
<1>4. ASSUME NEW saved \in BOOLEAN, NEW ratios \in BOOLEAN, CompleteSaves(saved, ratios)
      PROVE  RowsKept
  <2>1. UNCHANGED <<own, lapse>>
    BY <1>4 DEF CompleteSaves, theYear
  <2>2. CASE statement' = statement
    BY <2>1, <2>2, RowsLeft
  <2>3. CASE statement' = [statement EXCEPT ![Annual] = FullRow(value, ratios)]
    <3>1. /\ FullRow(value, ratios) \in Rows /\ FullRow(value, ratios).stored
          /\ FullRow(value, ratios).detailed
      BY <1>2 DEF FullRow, Rows
    <3>2. MayBecome(Annual, FullRow(value, ratios))
      BY <1>0, <3>1 DEF MayBecome
    <3> QED
      BY <1>0, <2>1, <2>3, <3>2, RowWritten
  <2> QED
    BY <1>4, <2>2, <2>3 DEF CompleteSaves
<1>5. ASSUME NEW answer, CompleteWritesRatios(answer)
      PROVE  RowsKept
  BY <1>0, <1>5, RatiosKeep DEF CompleteWritesRatios, theYear
<1> QED
  BY <1>1, <1>3, <1>4, <1>5 DEF AnnualStep

\* The job for the EPS goes on to the next quarter, or rests.
LEMMA GoesOnTyped ==
  ASSUME StatementsTyped, NEW q \in eps.todo, EpsGoesOn(q)
  PROVE  eps' \in EpsStates /\ (eps'.pc # "rest" => eps'.todo # {})
<1>1. eps.todo \in SUBSET QuartersOfYear
  BY DEF StatementsTyped, FSTypeOK
<1>2. CASE eps.todo = {q}
  BY <1>2 DEF EpsGoesOn, EpsAtRest, EpsStates
<1>3. CASE eps.todo # {q}
  <2>1. eps' = [pc |-> "select", todo |-> eps.todo \ {q}, cumulative |-> 0, before |-> 0]
    BY <1>3 DEF EpsGoesOn, EpsAtRest
  <2>2. eps.todo \ {q} # {}
    BY <1>3
  <2> QED
    BY <1>1, <2>1, <2>2 DEF EpsStates
<1> QED
  BY <1>2, <1>3

LEMMA TypedInts ==
  ASSUME StatementsTyped
  PROVE  due \in Nat /\ announced \in Nat /\ eps.todo \in SUBSET QuartersOfYear
<1>1. ended \in 0 .. LastQuarter /\ due \in 0 .. ended /\ announced \in 0 .. ended
  BY DEF StatementsTyped, FSTypeOK
<1>2. eps.todo \in SUBSET QuartersOfYear
  BY DEF StatementsTyped, FSTypeOK
<1> QED
  BY <1>1, <1>2, StatementsAssumption

LEMMA JobBegins ==
  ASSUME StatementsTyped, BeginJob
  PROVE  nights' \in 0 .. MaxNights
<1>1. nights \in 0 .. MaxNights
  BY DEF StatementsTyped, FSTypeOK
<1> QED
  BY <1>1, StatementsAssumption DEF BeginJob

\* The jobs, but for the table, and the rest of the state stay what they are.
LEMMA EpsTypes ==
  ASSUME StatementsTyped, EpsStep
  PROVE  /\ eps' \in EpsStates /\ (eps'.pc # "rest" => eps'.todo # {})
         /\ nights' \in 0 .. MaxNights
         /\ UNCHANGED <<ended, due, announced, visited, skips, yahoo, yearly, complete>>
<1>1. /\ eps \in EpsStates /\ nights \in 0 .. MaxNights /\ eps.todo \in SUBSET QuartersOfYear
      /\ eps.pc # "rest" => eps.todo # {}
      /\ own \in [QuartersOfYear -> {-1, 1}]
  BY DEF StatementsTyped, FSTypeOK
<1> PICK q : q = NextTarget(eps.todo)
  OBVIOUS
<1>2. eps.pc # "rest" => q \in eps.todo /\ q \in QuartersOfYear
  BY <1>1, FirstTarget
<1>3. CASE EpsBegins
  <2>1. nights' \in 0 .. MaxNights
    BY <1>3, JobBegins DEF EpsBegins
  <2>2. EpsTargets \in SUBSET QuartersOfYear /\ EpsTargets # {}
    BY <1>3 DEF EpsBegins, EpsTargets
  <2>3. eps' = [pc |-> "select", todo |-> EpsTargets, cumulative |-> 0, before |-> 0]
    BY <1>3 DEF EpsBegins, EpsAtRest
  <2> QED
    BY <1>3, <2>1, <2>2, <2>3 DEF EpsBegins, EpsStates, theYear, flags, annualJobs
<1>4. CASE ~EpsBegins
  <2>1. /\ eps.pc # "rest" /\ nights' = nights
        /\ UNCHANGED <<ended, due, announced, visited, skips, yahoo, yearly, complete>>
    BY <1>4 DEF EpsStep, EpsSelects, EpsReadsEarlier, EpsFetches, EpsSaves, theYear, flags,
       annualJobs
  <2>2. CASE EpsGoesOn(q)
    BY <1>1, <1>2, <2>1, <2>2, GoesOnTyped
  <2>3. CASE EpsSelects /\ ~EpsGoesOn(q)
    BY <1>1, <2>1, <2>3 DEF EpsSelects, EpsStates
  <2>4. CASE (\E figure \in {"sum", "unreadable", "none"} : EpsFetches(figure)) /\ ~EpsGoesOn(q)
    <3>1. Cumulative(q) \in Int
      BY <1>1, <1>2, <2>1, CumulativeGrows
    <3>2. PICK figure \in {"sum", "unreadable", "none"} : EpsFetches(figure)
      BY <2>4
    <3> PICK c, pc : c = (IF figure = "sum" THEN Cumulative(q) ELSE 0)
                     /\ pc = (IF q = 1 THEN "save" ELSE "earlier")
      OBVIOUS
    <3>3. eps' = [eps EXCEPT !.cumulative = c, !.pc = pc]
      BY <2>4, <3>2 DEF EpsFetches
    <3>4. c \in Int /\ pc \in {"save", "earlier"}
      BY <3>1
    <3> QED
      BY <1>1, <2>1, <3>3, <3>4 DEF EpsStates
  <2>5. CASE (\E read \in BOOLEAN : EpsReadsEarlier(read)) /\ ~EpsGoesOn(q)
    <3>1. CumulativeEps(SmallerQuarters(q)) \in Int
      <4> DEFINE stored == [p \in QuartersOfYear |-> statement[p].eps]
      <4>1. \A p \in 1 .. (q - 1) : p \in QuartersOfYear
        BY <1>2, <2>1, StatementsAssumption DEF QuartersOfYear
      <4>2. \A p \in QuartersOfYear : stored[p] \in Int
        BY RowTypes DEF Rows
      <4>3. IsFiniteSet(1 .. (q - 1))
        BY <1>2, <2>1, FS_Interval DEF QuartersOfYear
      <4> HIDE DEF stored
      <4>4. SumFunctionOnSet(stored, 1 .. (q - 1)) \in Int
        BY <4>1, <4>2, <4>3, SumIsInteger
      <4> QED
        BY <4>4 DEF CumulativeEps, SmallerQuarters, stored
    <3> QED
      BY <1>1, <2>1, <2>5, <3>1 DEF EpsReadsEarlier, EpsStates
  <2> QED
    BY <1>4, <2>1, <2>2, <2>3, <2>4, <2>5 DEF EpsStep, EpsSaves
<1> QED
  BY <1>3, <1>4

LEMMA YahooTypes ==
  ASSUME StatementsTyped, YahooStep
  PROVE  /\ yahoo' \in YahooStates /\ (yahoo'.pc # "rest" => yahoo'.todo # {})
         /\ nights' \in 0 .. MaxNights /\ visited' \subseteq QuartersOfYear
         /\ skips' \subseteq {"profile", "annual eps", "annual"}
         /\ UNCHANGED <<ended, due, announced, eps, yearly, complete>>
<1>1. /\ yahoo \in YahooStates /\ nights \in 0 .. MaxNights
      /\ yahoo.todo \in SUBSET QuartersOfYear
      /\ yahoo.pc # "rest" => yahoo.todo # {}
      /\ visited \subseteq QuartersOfYear /\ skips \subseteq {"profile", "annual eps", "annual"}
  BY DEF StatementsTyped, FSTypeOK
<1> PICK q : q = NextTarget(yahoo.todo)
  OBVIOUS
<1>2. yahoo.pc # "rest" => q \in yahoo.todo /\ q \in QuartersOfYear
  BY <1>1, FirstTarget
<1>3. \A k : LacksValues(k) \in BOOLEAN
  BY DEF LacksValues
<1> USE DEF YahooStates
<1>4. YahooAtRest \in YahooStates /\ 0 \in StatementKeys
  BY DEF YahooAtRest, StatementKeys, Annual
<1>5. CASE \E targets \in SUBSET QuartersOfYear : YahooBegins(targets)
  <2>1. PICK targets \in SUBSET QuartersOfYear : YahooBegins(targets)
    BY <1>5
  <2>2. yahoo' = [pc |-> "select", todo |-> targets, profile |-> 0, lacking |-> FALSE]
    BY <2>1 DEF YahooBegins, YahooAtRest
  <2>3. targets # {} /\ nights' \in 0 .. MaxNights
    BY <2>1, JobBegins DEF YahooBegins
  <2> QED
    BY <1>1, <1>4, <2>1, <2>2, <2>3 DEF YahooBegins, theYear, flags, annualJobs
<1>6. CASE YahooSelects \/ YahooFails
  BY <1>1, <1>4, <1>6 DEF YahooSelects, YahooFails, YahooAtRest, theYear, flags, annualJobs
<1>7. CASE YahooReadsZeros
  <2> PICK lacking \in BOOLEAN : lacking = LacksValues(q)
    BY <1>3
  <2>1. yahoo' = [yahoo EXCEPT !.lacking = lacking, !.pc = "ratios"]
    BY <1>7 DEF YahooReadsZeros
  <2>2. yahoo' = [pc |-> "ratios", todo |-> yahoo.todo, profile |-> yahoo.profile,
                  lacking |-> lacking]
    BY <1>1, <2>1
  <2>3. yahoo.pc # "rest"
    BY <1>7 DEF YahooReadsZeros
  <2> QED
    BY <1>1, <1>7, <2>2, <2>3 DEF YahooReadsZeros, theYear, flags, annualJobs
<1>8. CASE \E shown \in 0 .. LastQuarter : YahooVisits(shown)
  <2>1. PICK shown \in 0 .. LastQuarter : YahooVisits(shown)
    BY <1>8
  <2>2. shown \in StatementKeys
    BY StatementsAssumption DEF StatementKeys, QuartersOfYear, Annual
  <2> QED
    BY <1>1, <2>1, <2>2 DEF YahooVisits, theYear, flags, annualJobs
<1>9. CASE \E remembered \in BOOLEAN : YahooFindsNothing(remembered)
  BY <1>1, <1>9 DEF YahooFindsNothing, theYear, annualJobs
<1>10. CASE \E ratios, flagged \in BOOLEAN : YahooSaves(ratios, flagged)
  BY <1>1, <1>2, <1>4, <1>10 DEF YahooSaves, theYear, annualJobs
<1>11. CASE \E answer \in {"values", "zero", "none"} : YahooWritesRatios(answer)
  <2>1. \/ yahoo' = YahooAtRest
        \/ /\ yahoo' = [YahooAtRest EXCEPT !.pc = "select", !.todo = yahoo.todo \ {q}]
           /\ yahoo.todo # {q}
    BY <1>11 DEF YahooWritesRatios
  <2>2. yahoo.pc # "rest"
    BY <1>11 DEF YahooWritesRatios
  <2>3. yahoo' \in YahooStates /\ (yahoo'.pc # "rest" => yahoo'.todo # {})
    <3>1. CASE yahoo' = YahooAtRest
      BY <1>4, <3>1 DEF YahooAtRest
    <3>2. CASE yahoo.todo # {q} /\ yahoo' # YahooAtRest
      <4>0. yahoo' = [YahooAtRest EXCEPT !.pc = "select", !.todo = yahoo.todo \ {q}]
        BY <2>1, <3>2
      <4>1. yahoo' = [pc |-> "select", todo |-> yahoo.todo \ {q}, profile |-> 0,
                      lacking |-> FALSE]
        BY <4>0 DEF YahooAtRest
      <4>2. yahoo.todo \ {q} # {} /\ yahoo.todo \ {q} \in SUBSET QuartersOfYear
        BY <1>1, <1>2, <2>2, <3>2
      <4> QED
        BY <1>4, <4>1, <4>2
    <3> QED
      BY <2>1, <3>1, <3>2
  <2> QED
    BY <1>1, <1>11, <2>3 DEF YahooWritesRatios, theYear, flags, annualJobs
<1> QED
  BY <1>5, <1>6, <1>7, <1>8, <1>9, <1>10, <1>11 DEF YahooStep

LEMMA AnnualTypes ==
  ASSUME StatementsTyped, AnnualStep
  PROVE  /\ yearly' \in YearlyStates /\ complete' \in CompleteStates
         /\ nights' \in 0 .. MaxNights /\ visited' = visited
         /\ skips' \subseteq {"profile", "annual eps", "annual"}
         /\ UNCHANGED <<ended, due, announced, eps, yahoo>>
<1>1. /\ yearly \in YearlyStates /\ complete \in CompleteStates /\ nights \in 0 .. MaxNights
      /\ skips \subseteq {"profile", "annual eps", "annual"}
  BY DEF StatementsTyped, FSTypeOK
<1> USE DEF YearlyStates, CompleteStates, theYear, flags
<1>2. CASE YearlyBegins
  BY <1>1, <1>2, JobBegins DEF YearlyBegins
<1>3. CASE CompleteBegins
  <2> PICK absent \in BOOLEAN : absent = ~statement[Annual].stored
    OBVIOUS
  <2>1. complete' = [complete EXCEPT !.absent = absent, !.pc = "save"]
    BY <1>3 DEF CompleteBegins
  <2>2. complete' = [pc |-> "save", absent |-> absent, lacking |-> complete.lacking]
    BY <1>1, <2>1
  <2> QED
    BY <1>1, <1>3, <2>2, JobBegins DEF CompleteBegins
<1>4. CASE CompleteReadsZeros
  <2> PICK lacking \in BOOLEAN : lacking = LacksValues(Annual)
    BY DEF LacksValues
  <2>1. complete' = [complete EXCEPT !.lacking = lacking, !.pc = "ratios"]
    BY <1>4 DEF CompleteReadsZeros
  <2>2. complete' = [pc |-> "ratios", absent |-> complete.absent, lacking |-> lacking]
    BY <1>1, <2>1
  <2> QED
    BY <1>1, <1>4, <2>2 DEF CompleteReadsZeros
<1>5. CASE \E flagged \in BOOLEAN : YearlyEnds(flagged) \/ CompleteEnds(flagged)
  <2>1. AnnualAtRest \in YearlyStates /\ AnnualAtRest \in CompleteStates
    BY DEF AnnualAtRest
  <2>2. skips' = skips \/ skips' = skips \cup {"annual eps"} \/ skips' = skips \cup {"annual"}
    BY <1>5 DEF YearlyEnds, CompleteEnds
  <2>3. skips' \subseteq {"profile", "annual eps", "annual"}
    BY <1>1, <2>2
  <2> QED
    BY <1>1, <1>5, <2>1, <2>3 DEF YearlyEnds, CompleteEnds
<1>6. CASE \/ \E found \in BOOLEAN : YearlyFetches(found)
           \/ \E saved \in BOOLEAN : YearlySaves(saved)
  BY <1>1, <1>6 DEF YearlyFetches, YearlySaves
<1>7. CASE \/ \E saved, ratios \in BOOLEAN : CompleteSaves(saved, ratios)
           \/ \E answer \in {"values", "zero", "none"} : CompleteWritesRatios(answer)
  BY <1>1, <1>7 DEF CompleteSaves, CompleteWritesRatios
<1> QED
  BY <1>2, <1>3, <1>4, <1>5, <1>6, <1>7 DEF AnnualStep

\* The table after any step.
LEMMA RowsStay ==
  ASSUME StatementsInvariant, FSNext
  PROVE  RowsKept
<1> USE DEF StatementsInvariant
<1>1. CASE Report \/ FlagsExpire
  BY <1>1, RowsLeft DEF Report, FlagsExpire, theYear
<1>2. CASE NextPeriod
  <2>1. UNCHANGED <<own, statement>>
    BY <1>2 DEF NextPeriod
  <2>2. CASE lapse' = lapse
    BY <2>1, <2>2, RowsLeft
  <2>3. CASE lapse' # lapse
    <3> DEFINE late == {q \in {due} \cap QuartersOfYear : ~statement[q].stored}
    <3>1. lapse' = Min({lapse} \cup late)
      BY <1>2, <2>3 DEF NextPeriod
    <3>2. CASE late = {}
      <4>1. {lapse} \cup late = {lapse} /\ IsFiniteSet({lapse})
        BY <3>2, FS_Singleton
      <4>2. lapse \in Int
        BY RowTypes
      <4>3. Min({lapse}) \in {lapse}
        BY <4>1, <4>2, MinIsLeast
      <4> QED
        BY <2>3, <3>1, <4>1, <4>3
    <3>3. CASE late # {}
      <4>1. late = {due} /\ due \in QuartersOfYear
        BY <3>3
      <4>2. {lapse} \cup late = {lapse, due}
        BY <4>1
      <4> QED
        BY <2>1, <3>1, <4>1, <4>2, RowsLeft
    <3> QED
      BY <3>2, <3>3
  <2> QED
    BY <2>2, <2>3
<1> QED
  BY <1>1, <1>2, EpsKeepsRows, YahooKeepsRows, AnnualKeepsRows DEF FSNext

LEMMA StatementTypesStep ==
  ASSUME StatementsInvariant, FSNext
  PROVE  StatementsTyped'
<1>1. StatementsTyped /\ RowsKept
  BY RowsStay DEF StatementsInvariant
<1>2. /\ own' \in [QuartersOfYear -> {-1, 1}] /\ lapse' \in 1 .. LastQuarter + 1
      /\ statement' \in [StatementKeys -> Rows]
      /\ \A k \in StatementKeys : statement'[k].detailed => statement'[k].stored
  BY <1>1, RowTypes DEF RowsKept
<1>3. /\ ended' \in 0 .. LastQuarter /\ due' \in 0 .. ended' /\ ended' <= due' + 1
      /\ announced' \in 0 .. ended'
  <2>1. /\ ended \in 0 .. LastQuarter /\ due \in 0 .. ended /\ ended <= due + 1
        /\ announced \in 0 .. ended
    BY <1>1 DEF StatementsTyped, FSTypeOK
  <2>2. CASE NextPeriod
    BY <2>1, <2>2, StatementsAssumption DEF NextPeriod
  <2>3. CASE Report
    BY <2>1, <2>3, StatementsAssumption DEF Report
  <2>4. CASE FlagsExpire
    BY <2>1, <2>4 DEF FlagsExpire, theYear
  <2> QED
    BY <1>1, <2>1, <2>2, <2>3, <2>4, EpsTypes, YahooTypes, AnnualTypes DEF FSNext
<1>4. /\ visited' \subseteq QuartersOfYear /\ skips' \subseteq {"profile", "annual eps", "annual"}
      /\ nights' \in 0 .. MaxNights
      /\ eps' \in EpsStates /\ (eps'.pc # "rest" => eps'.todo # {})
      /\ yahoo' \in YahooStates /\ (yahoo'.pc # "rest" => yahoo'.todo # {})
      /\ yearly' \in YearlyStates /\ complete' \in CompleteStates
  <2>1. /\ visited \subseteq QuartersOfYear
        /\ skips \subseteq {"profile", "annual eps", "annual"}
        /\ nights \in 0 .. MaxNights
        /\ eps \in EpsStates /\ (eps.pc # "rest" => eps.todo # {})
        /\ yahoo \in YahooStates /\ (yahoo.pc # "rest" => yahoo.todo # {})
        /\ yearly \in YearlyStates /\ complete \in CompleteStates
    BY <1>1 DEF StatementsTyped, FSTypeOK
  <2>2. CASE NextPeriod \/ Report
    BY <2>1, <2>2 DEF NextPeriod, Report, flags, jobs, annualJobs
  <2>3. CASE FlagsExpire
    BY <2>1, <2>3 DEF FlagsExpire, jobs, annualJobs
  <2>4. CASE EpsStep
    <3>1. /\ eps' \in EpsStates /\ (eps'.pc # "rest" => eps'.todo # {})
          /\ nights' \in 0 .. MaxNights
          /\ UNCHANGED <<visited, skips, yahoo, yearly, complete>>
      BY <1>1, <2>4, EpsTypes
    <3> QED
      BY <2>1, <3>1
  <2>5. CASE YahooStep
    <3>1. UNCHANGED <<eps, yearly, complete>>
      BY <1>1, <2>5, YahooTypes
    <3> QED
      BY <1>1, <2>1, <2>5, <3>1, YahooTypes
  <2>6. CASE AnnualStep
    <3>1. UNCHANGED <<eps, yahoo, visited>>
      BY <1>1, <2>6, AnnualTypes
    <3> QED
      BY <1>1, <2>1, <2>6, <3>1, AnnualTypes
  <2> QED
    BY <2>2, <2>3, <2>4, <2>5, <2>6 DEF FSNext
<1>5. /\ eps'.pc \in {"rest", "select", "fetch", "earlier", "save"}
      /\ eps'.todo \subseteq QuartersOfYear
      /\ yahoo'.pc \in {"rest", "select", "visit", "save", "zeros", "ratios"}
      /\ yahoo'.todo \subseteq QuartersOfYear /\ yahoo'.profile \in StatementKeys
      /\ yearly'.pc \in {"rest", "fetch", "save", "end"}
      /\ complete'.pc \in {"rest", "save", "zeros", "ratios", "end"}
  BY <1>4 DEF EpsStates, YahooStates, YearlyStates, CompleteStates
<1>6. FSTypeOK'
  BY ONLY <1>2, <1>3, <1>4, <1>5 DEF FSTypeOK, Rows
<1> QED
  BY ONLY <1>2, <1>4, <1>6 DEF StatementsTyped

\* A quarter whose deadline has passed is in the table, or there is a lapse.
LEMMA InTableStep ==
  ASSUME StatementsInvariant, FSNext
  PROVE  /\ \A q \in QuartersOfYear : InTable(q) => InTable(q)'
         /\ \A q \in QuartersOfYear : q < due' => InTable(q)'
         /\ EpsErrorsFollowLapses'
<1>1. /\ StatementsTyped /\ RowsKept /\ EpsErrorsFollowLapses
      /\ \A q \in QuartersOfYear : q < due => InTable(q)
  BY RowsStay DEF StatementsInvariant
<1>2. /\ QuartersOfYear \subseteq StatementKeys /\ QuartersOfYear \subseteq Int
      /\ lapse \in Int /\ lapse' \in Int /\ lapse' <= lapse
  BY <1>1, RowTypes, StatementsAssumption DEF RowsKept, QuartersOfYear
<1>3. \A q \in QuartersOfYear : InTable(q) => InTable(q)'
  BY <1>1, <1>2 DEF InTable, RowsKept
<1>4. EpsErrorsFollowLapses'
  BY <1>1, <1>2 DEF EpsErrorsFollowLapses, RowsKept
<1>5. ASSUME NEW q \in QuartersOfYear, q < due'
      PROVE  InTable(q)'
  <2>1. CASE due' = due
    BY <1>1, <1>3, <1>5, <2>1
  <2>2. CASE due' # due
    <3>1. NextPeriod
      BY <1>1, <2>2, EpsTypes, YahooTypes, AnnualTypes DEF FSNext, Report, FlagsExpire, theYear
    <3>2. due' = due + 1 /\ due \in Int /\ statement' = statement
      <4>1. due \in Int
        BY <1>1, TypedInts
      <4> QED
        BY <2>2, <3>1, <4>1 DEF NextPeriod
    <3>3. CASE q # due
      BY <1>1, <1>2, <1>3, <1>5, <3>2, <3>3
    <3>4. CASE q = due /\ statement[q].stored
      BY <3>2, <3>4 DEF InTable
    <3>5. CASE q = due /\ ~statement[q].stored
      <4>1. lapse' = Min({lapse} \cup {p \in {due} \cap QuartersOfYear : ~statement[p].stored})
        BY <2>2, <3>1 DEF NextPeriod
      <4>2. {lapse} \cup {p \in {due} \cap QuartersOfYear : ~statement[p].stored} = {lapse, q}
        BY <1>5, <3>5
      <4>3. lapse' <= q
        BY <1>1, <1>5, <4>1, <4>2, LapseOf, RowTypes
      <4> QED
        BY <4>3 DEF InTable
    <3> QED
      BY <3>3, <3>4, <3>5
  <2> QED
    BY <2>1, <2>2
<1> QED
  BY <1>3, <1>4, <1>5

\* The job goes on when the quarter in hand is in the table, has lapsed, or was the last.
LEMMA GoesOnFits ==
  ASSUME StatementsInvariant, FSNext, eps.pc # "rest", due' = due,
         EpsGoesOn(NextTarget(eps.todo)),
         \A q \in QuartersOfYear : q = NextTarget(eps.todo) => InTable(q)' \/ eps.todo = {q}
  PROVE  EpsFits'
<1>1. /\ StatementsTyped /\ EpsFits
      /\ \A q \in QuartersOfYear : InTable(q) => InTable(q)'
  BY InTableStep DEF StatementsInvariant
<1>2. eps.todo \in SUBSET QuartersOfYear /\ eps.todo # {} /\ due \in Int
  BY <1>1, TypedInts DEF StatementsTyped
<1> PICK q : q = NextTarget(eps.todo)
  OBVIOUS
<1>3. q \in eps.todo /\ q \in QuartersOfYear /\ \A x \in eps.todo : q <= x
  BY <1>2, FirstTarget
<1>4. CASE eps.todo = {q}
  BY <1>4 DEF EpsGoesOn, EpsAtRest, EpsFits
<1>5. CASE eps.todo # {q}
  <2>1. eps' = [pc |-> "select", todo |-> eps.todo \ {q}, cumulative |-> 0, before |-> 0]
    BY <1>5 DEF EpsGoesOn, EpsAtRest
  <2>2. eps'.todo = eps.todo \ {q} /\ eps'.pc = "select" /\ eps'.before = 0
    BY <2>1
  <2>3. InTable(q)'
    BY <1>3, <1>5
  <2>4. ASSUME NEW r \in QuartersOfYear, r = NextTarget(eps'.todo),
               NEW p \in QuartersOfYear, p < r
        PROVE  InTable(p)'
    <3>1. r \in eps.todo \ {q}
      <4>1. eps.todo \ {q} # {} /\ eps.todo \ {q} \in SUBSET QuartersOfYear
        BY <1>2, <1>3, <1>5
      <4> QED
        BY <2>2, <2>4, <4>1, FirstTarget
    <3>2. r = q + 1
      BY <1>1, <1>3, <3>1 DEF EpsFits, QuartersOfYear
    <3>3. p < q \/ p = q
      BY <1>3, <2>4, <3>2 DEF QuartersOfYear
    <3>4. p < q => InTable(p)
      BY <1>1, <1>3 DEF EpsFits
    <3> QED
      BY <1>1, <2>3, <3>3, <3>4
  <2>5. /\ \A a \in eps'.todo : a <= due' + 1
        /\ \A a, b \in eps'.todo : a < b => b = a + 1 /\ a <= due'
    BY <1>1, <2>2 DEF EpsFits
  <2> QED
    BY <2>2, <2>4, <2>5 DEF EpsFits
<1> QED
  BY <1>4, <1>5

\* A step of the others leaves the job as it is.
LEMMA OthersFit ==
  ASSUME StatementsInvariant, FSNext, eps' = eps
  PROVE  EpsFits'
<1>1. /\ StatementsTyped /\ EpsFits /\ RowsKept
      /\ \A q \in QuartersOfYear : InTable(q) => InTable(q)'
  BY InTableStep, RowsStay DEF StatementsInvariant
<1>2. eps.todo \in SUBSET QuartersOfYear /\ due \in Int
  BY <1>1, TypedInts
<1>3. due' \in Int /\ due <= due'
  <2>1. due' = due \/ due' = due + 1
    BY <1>1, EpsTypes, YahooTypes, AnnualTypes DEF FSNext, NextPeriod, Report, FlagsExpire, theYear
  <2> QED
    BY <1>2, <2>1
<1>4. own' = own /\ lapse \in Int /\ lapse' \in Int /\ lapse' <= lapse
  BY <1>1, RowTypes, StatementsAssumption DEF RowsKept
<1>5. \A q \in QuartersOfYear : Cumulative(q)' = Cumulative(q) /\ Cumulative(q - 1)' = Cumulative(q - 1)
  BY <1>4 DEF Cumulative
<1>6. \A q \in QuartersOfYear : lapse <= q => lapse' <= q
  BY <1>4 DEF QuartersOfYear
<1>7. eps.pc # "rest" =>
        /\ \A a \in eps.todo : a <= due' + 1
        /\ \A a, b \in eps.todo : a < b => b = a + 1 /\ a <= due'
  BY <1>1, <1>2, <1>3 DEF EpsFits, QuartersOfYear
<1> QED
  BY <1>1, <1>5, <1>6, <1>7 DEF EpsFits

LEMMA EpsFitsStep ==
  ASSUME StatementsInvariant, FSNext
  PROVE  EpsFits'
<1>1. /\ StatementsTyped /\ EpsFits /\ RowsKept /\ EpsErrorsFollowLapses
      /\ \A q \in QuartersOfYear : q < due => InTable(q)
      /\ \A q \in QuartersOfYear : InTable(q) => InTable(q)'
  BY InTableStep, RowsStay DEF StatementsInvariant
<1>2. CASE ~EpsStep
  <2>1. eps' = eps
    BY <1>1, <1>2, YahooTypes, AnnualTypes DEF FSNext, NextPeriod, Report, FlagsExpire, jobs
  <2> QED
    BY <2>1, OthersFit
<1>3. CASE EpsStep
  <2>1. UNCHANGED <<due, own, announced>>
    BY <1>1, <1>3, EpsTypes DEF RowsKept
  <2>2. /\ eps \in EpsStates /\ eps.todo \in SUBSET QuartersOfYear /\ due \in Nat
        /\ announced \in Int
        /\ eps.pc # "rest" => eps.todo # {}
    BY <1>1, TypedInts DEF StatementsTyped
  <2>3. lapse \in 1 .. LastQuarter + 1 /\ own \in [QuartersOfYear -> {-1, 1}]
    BY <1>1, RowTypes
  <2> PICK q : q = NextTarget(eps.todo)
    OBVIOUS
  <2>4. eps.pc # "rest" => q \in eps.todo /\ q \in QuartersOfYear /\ \A x \in eps.todo : q <= x
    BY <2>2, FirstTarget
  <2>5. Cumulative(q)' = Cumulative(q) /\ Cumulative(q - 1)' = Cumulative(q - 1)
    BY <2>1 DEF Cumulative
  <2>6. CASE EpsBegins
    <3>1. eps' = [pc |-> "select", todo |-> EpsTargets, cumulative |-> 0, before |-> 0]
      BY <2>6 DEF EpsBegins, EpsAtRest
    <3>2. EpsTargets \in SUBSET QuartersOfYear /\ EpsTargets # {}
      BY <2>6 DEF EpsBegins, EpsTargets
    <3>3. /\ \A a \in EpsTargets : a <= due + 1
          /\ \A a, b \in EpsTargets : a < b => b = a + 1 /\ a <= due
      BY <2>2 DEF EpsTargets
    <3>4. ASSUME NEW r \in QuartersOfYear, r = NextTarget(eps'.todo),
                 NEW p \in QuartersOfYear, p < r
          PROVE  InTable(p)'
      <4>1. r \in EpsTargets /\ \A x \in EpsTargets : r <= x
        BY <3>1, <3>2, <3>4, FirstTarget
      <4>2. CASE due \in QuartersOfYear
        <5>1. r <= due
          BY <4>1, <4>2 DEF EpsTargets
        <5> QED
          BY <1>1, <2>2, <3>4, <5>1 DEF QuartersOfYear
      <4>3. CASE due \notin QuartersOfYear
        <5>1. due = 0
          <6>1. ended \in 0 .. LastQuarter /\ due \in 0 .. ended
            BY <1>1 DEF StatementsTyped, FSTypeOK
          <6> QED
            BY <4>3, <6>1, StatementsAssumption DEF QuartersOfYear
        <5> QED
          BY <3>4, <4>1, <5>1 DEF EpsTargets, QuartersOfYear
      <4> QED
        BY <4>2, <4>3
    <3>5. eps'.pc = "select" /\ eps'.todo = EpsTargets /\ eps'.before = 0
      BY <3>1
    <3> QED
      BY <2>1, <3>3, <3>4, <3>5 DEF EpsFits
  <2>7. ASSUME eps.pc # "rest", EpsGoesOn(q), InTable(q)' \/ eps.todo = {q}
        PROVE  EpsFits'
    BY <1>3, <2>1, <2>7, GoesOnFits
  <2>8. CASE EpsSelects
    <3>1. eps.pc = "select"
      BY <2>8 DEF EpsSelects
    <3>2. CASE WithoutStatement(q)
      <4>1. eps' = [eps EXCEPT !.pc = "fetch"]
        BY <2>8, <3>2 DEF EpsSelects
      <4>2. eps'.pc = "fetch" /\ eps'.todo = eps.todo /\ eps'.before = eps.before
        BY <2>2, <4>1 DEF EpsStates
      <4> QED
        BY <1>1, <2>1, <3>1, <4>2 DEF EpsFits
    <3>3. CASE ~WithoutStatement(q)
      <4>1. InTable(q) /\ EpsGoesOn(q)
        BY <2>8, <3>3 DEF EpsSelects, WithoutStatement, InTable
      <4> QED
        BY <1>1, <2>4, <2>7, <3>1, <4>1
    <3> QED
      BY <3>2, <3>3
  <2>9. ASSUME NEW figure \in {"sum", "unreadable", "none"}, EpsFetches(figure)
        PROVE  EpsFits'
    <3>1. eps.pc = "fetch" /\ q \in eps.todo /\ q \in QuartersOfYear
      BY <2>4, <2>9 DEF EpsFetches
    <3>2. CASE figure = "none" \/ q > announced
      <4>1. /\ EpsGoesOn(q)
            /\ lapse' = IF q <= due \/ q <= announced THEN Min({lapse, q}) ELSE lapse
        BY <2>9, <3>2 DEF EpsFetches
      <4>2. CASE q <= due \/ q <= announced
        BY <2>3, <2>7, <3>1, <4>1, <4>2, LapseOf DEF InTable
      <4>3. CASE ~(q <= due)
        <5>1. \A x \in eps.todo : x = q
          BY <1>1, <2>2, <2>4, <3>1, <4>3 DEF EpsFits, QuartersOfYear
        <5> QED
          BY <2>7, <3>1, <4>1, <5>1
      <4> QED
        BY <4>2, <4>3
    <3>3. CASE ~(figure = "none" \/ q > announced)
      <4> PICK c, pc : /\ c = (IF figure = "sum" THEN Cumulative(q) ELSE 0)
                       /\ pc = (IF q = 1 THEN "save" ELSE "earlier")
        OBVIOUS
      <4>1. /\ eps' = [eps EXCEPT !.cumulative = c, !.pc = pc]
            /\ lapse' = IF figure = "sum" THEN lapse ELSE Min({lapse, q})
        BY <2>9, <3>3 DEF EpsFetches
      <4>2. /\ eps'.pc = pc /\ eps'.todo = eps.todo /\ eps'.before = eps.before
            /\ eps'.cumulative = c
        BY <2>2, <4>1 DEF EpsStates
      <4>3. c = Cumulative(q) \/ lapse' <= q
        BY <2>3, <3>1, <4>1, LapseOf
      <4>4. eps.before = 0 /\ (q = 1 => Cumulative(q - 1) = 0)
        BY <1>1, <2>3, <3>1, CumulativeGrows DEF EpsFits
      <4>5. pc \in {"save", "earlier"} /\ (pc = "save" => q = 1)
        OBVIOUS
      <4>6. \A r \in QuartersOfYear : r = NextTarget(eps'.todo) => r = q
        BY <4>2
      <4>7. \A p \in QuartersOfYear : p < q => InTable(p)'
        BY <1>1, <3>1 DEF EpsFits
      <4> QED
        BY <1>1, <2>1, <2>5, <3>1, <4>2, <4>3, <4>4, <4>5, <4>6, <4>7 DEF EpsFits
    <3> QED
      BY <3>2, <3>3
  <2>10. ASSUME NEW read \in BOOLEAN, EpsReadsEarlier(read)
         PROVE  EpsFits'
    <3>1. eps.pc = "earlier" /\ q \in eps.todo /\ q \in QuartersOfYear
      BY <2>4, <2>10 DEF EpsReadsEarlier
    <3>2. CASE ~read
      <4>1. EpsGoesOn(q) /\ lapse' = Min({lapse, q})
        BY <2>10, <3>2 DEF EpsReadsEarlier
      <4> QED
        BY <2>3, <2>7, <3>1, <4>1, LapseOf DEF InTable
    <3>3. CASE read
      <4> PICK before : before = CumulativeEps(SmallerQuarters(q))
        OBVIOUS
      <4>1. eps' = [eps EXCEPT !.before = before, !.pc = "save"] /\ lapse' = lapse
        BY <2>10, <3>3 DEF EpsReadsEarlier
      <4>2. /\ eps'.pc = "save" /\ eps'.todo = eps.todo /\ eps'.before = before
            /\ eps'.cumulative = eps.cumulative
        BY <2>2, <4>1 DEF EpsStates
      <4>3. \A p \in QuartersOfYear : p < q => InTable(p)
        BY <1>1, <3>1 DEF EpsFits
      <4>4. before = Cumulative(q - 1) \/ lapse <= q
        BY <1>1, <3>1, <4>3, EarlierAreRight
      <4>5. eps.cumulative = Cumulative(q) \/ lapse <= q
        BY <1>1, <3>1 DEF EpsFits
      <4>6. \A r \in QuartersOfYear : r = NextTarget(eps'.todo) => r = q
        BY <4>2
      <4> QED
        BY <1>1, <2>1, <2>5, <3>1, <4>1, <4>2, <4>3, <4>4, <4>5, <4>6 DEF EpsFits
    <3> QED
      BY <3>2, <3>3
  <2>11. ASSUME NEW saved \in BOOLEAN, EpsSaves(saved)
         PROVE  EpsFits'
    <3>1. eps.pc = "save" /\ q \in eps.todo /\ q \in QuartersOfYear /\ EpsGoesOn(q)
      BY <2>4, <2>11 DEF EpsSaves
    <3>2. CASE ~saved
      <4>1. lapse' = Min({lapse, q})
        BY <2>11, <3>2 DEF EpsSaves
      <4> QED
        BY <2>3, <2>7, <3>1, <4>1, LapseOf DEF InTable
    <3>3. CASE saved
      <4>1. statement \in [StatementKeys -> Rows] /\ q \in StatementKeys
        BY <1>1, <3>1, RowTypes
      <4>2. statement'[q] = EpsUpsert(statement[q], eps.cumulative - eps.before)
        BY <2>11, <3>3, <4>1 DEF EpsSaves
      <4>3. statement'[q].stored
        BY <4>1, <4>2 DEF EpsUpsert, Rows
      <4> QED
        BY <2>7, <3>1, <4>3 DEF InTable
    <3> QED
      BY <3>2, <3>3
  <2> QED
    BY <1>3, <2>6, <2>8, <2>9, <2>10, <2>11 DEF EpsStep
<1> QED
  BY <1>2, <1>3

LEMMA StatementsInit == FSInit => StatementsInvariant
<1> SUFFICES ASSUME FSInit PROVE StatementsInvariant
  OBVIOUS
<1>1. /\ ended \in 0 .. LastQuarter /\ due = ended /\ announced = ended
      /\ own \in [QuartersOfYear -> {-1, 1}]
      /\ visited = {} /\ skips = {} /\ nights = 0 /\ lapse = LastQuarter + 1
      /\ eps = EpsAtRest /\ yahoo = YahooAtRest /\ yearly = AnnualAtRest
      /\ complete = AnnualAtRest
  BY DEF FSInit
<1>2. /\ statement \in [StatementKeys -> Rows]
      /\ \A k \in StatementKeys : ~statement[k].detailed
      /\ \A q \in QuartersOfYear : IF q \in 1 .. ended
                                   THEN statement[q].stored /\ statement[q].eps = own[q]
                                   ELSE ~statement[q].stored
  <2>1. ASSUME NEW k \in StatementKeys
        PROVE  /\ statement[k] \in Rows /\ ~statement[k].detailed
               /\ k \in 1 .. ended => statement[k].stored /\ statement[k].eps = own[k]
               /\ k \notin 1 .. ended => ~statement[k].stored
    <3>1. CASE k \in 1 .. ended
      <4>1. own[k] \in Int
        BY <1>1, <3>1, StatementsAssumption DEF QuartersOfYear
      <4>2. statement[k] = [stored |-> TRUE, eps |-> own[k], detailed |-> FALSE, ratios |-> FALSE]
        BY <3>1 DEF FSInit, NoStatement
      <4> QED
        BY <3>1, <4>1, <4>2 DEF Rows
    <3>2. CASE k \notin 1 .. ended
      <4>1. statement[k] = [stored |-> FALSE, eps |-> 0, detailed |-> FALSE, ratios |-> FALSE]
        BY <3>2 DEF FSInit, NoStatement
      <4> QED
        BY <3>2, <4>1 DEF Rows
    <3> QED
      BY <3>1, <3>2
  <2>2. statement = [k \in StatementKeys |-> statement[k]]
    BY DEF FSInit
  <2>3. statement \in [StatementKeys -> Rows]
    BY <2>1, <2>2
  <2>4. QuartersOfYear \subseteq StatementKeys
    BY DEF StatementKeys
  <2> QED
    BY <2>1, <2>3, <2>4
<1>3. /\ eps \in EpsStates /\ yahoo \in YahooStates /\ yearly \in YearlyStates
      /\ complete \in CompleteStates
      /\ eps.pc = "rest" /\ yahoo.pc = "rest" /\ eps.todo = {}
      /\ yahoo.todo = {} /\ yahoo.profile = 0
  BY <1>1 DEF EpsStates, YahooStates, YearlyStates, CompleteStates, EpsAtRest, YahooAtRest,
     AnnualAtRest, StatementKeys, Annual
<1>4. FSTypeOK
  <2>1. 0 \in StatementKeys
    BY DEF StatementKeys, Annual
  <2>2. yearly.pc = "rest" /\ complete.pc = "rest"
    BY <1>1 DEF AnnualAtRest
  <2>3. /\ due \in 0 .. ended /\ ended <= due + 1 /\ announced \in 0 .. ended
        /\ nights \in 0 .. MaxNights /\ lapse \in 1 .. LastQuarter + 1
    BY <1>1, StatementsAssumption
  <2> QED
    BY <1>1, <1>2, <1>3, <2>1, <2>2, <2>3 DEF FSTypeOK, Rows
<1>5. StatementsTyped /\ EpsFits
  BY <1>2, <1>3, <1>4 DEF StatementsTyped, EpsFits
<1>6. \A q \in QuartersOfYear : q < due => InTable(q)
  BY <1>1, <1>2 DEF InTable, QuartersOfYear
<1>7. EpsErrorsFollowLapses
  BY <1>2 DEF EpsErrorsFollowLapses
<1> QED
  BY <1>5, <1>6, <1>7 DEF StatementsInvariant

LEMMA StatementsStep == StatementsInvariant /\ [FSNext]_fsVars => StatementsInvariant'
<1> SUFFICES ASSUME StatementsInvariant, [FSNext]_fsVars PROVE StatementsInvariant'
  OBVIOUS
<1>1. CASE FSNext
  BY <1>1, StatementTypesStep, InTableStep, EpsFitsStep DEF StatementsInvariant
<1>2. CASE UNCHANGED fsVars
  BY <1>2 DEF fsVars, StatementsInvariant, StatementsTyped, FSTypeOK, InTable, EpsFits,
     EpsErrorsFollowLapses, Cumulative
<1> QED
  BY <1>1, <1>2

LEMMA StatementsInvariantHolds == FSSpec => []StatementsInvariant
BY StatementsInit, StatementsStep, PTL DEF FSSpec

\* The table of statements and the four jobs that fill it have the types FSTypeOK gives
\* them, whatever the jobs do at the same time.
THEOREM StatementsTypeCorrect == FSSpec => []FSTypeOK
<1>1. StatementsInvariant => FSTypeOK
  BY DEF StatementsInvariant, StatementsTyped
<1> QED
  BY <1>1, StatementsInvariantHolds, PTL

\* For any number of quarters: an EPS that is not the quarter's own has a lapse of the
\* quarter or of an earlier one behind it; subtracting what is stored of the earlier
\* quarters from the published sum adds no error of its own (process_eps of quarter_eps.rs).
THEOREM ErrorsFollowLapses == FSSpec => []EpsErrorsFollowLapses
<1>1. StatementsInvariant => EpsErrorsFollowLapses
  BY DEF StatementsInvariant
<1> QED
  BY <1>1, StatementsInvariantHolds, PTL

\* No job takes the details from a statement that has them: a statement is replaced only
\* by a full one, and the two bare writers leave what is there (the conflict clauses of
\* financial_statement.rs).
THEOREM DetailsStay == FSSpec => StatementsKeepDetail
<1>1. StatementsInvariant /\ [FSNext]_fsVars =>
        [\A k \in StatementKeys : statement[k].detailed => statement'[k].detailed]_statement
  <2>1. SUFFICES ASSUME StatementsInvariant, FSNext, NEW k \in StatementKeys,
                        statement[k].detailed
                 PROVE  statement'[k].detailed
    BY DEF fsVars
  <2> QED
    BY <2>1, RowsStay DEF RowsKept
<1> QED
  BY <1>1, StatementsInvariantHolds, PTL DEF FSSpec, StatementsKeepDetail

-----------------------------------------------------------------------------
(* The annualised returns, for any stocks, days, periods and calculations. *)

RowSet == [base : -1 .. LastTradeDay, complete : BOOLEAN]
Calcs == [pc : {"idle", "next", "prices", "period", "save"}, backfill : BOOLEAN,
          dates : SUBSET TradeDays, listed : SUBSET TradeDays, periods : SUBSET Periods,
          todo : SUBSET (Periods \X TradeDays), end : 0 .. LastTradeDay, ends : SUBSET Symbols,
          period : Periods \cup {0}, records : [Symbols -> RowSet] \cup {<<>>},
          saved : SUBSET Symbols, clean : BOOLEAN]

ReturnsTyped ==
    /\ quoted \subseteq Symbols \X TradeDays /\ unpriced \subseteq TradeDays
    /\ rows \in [TradeDays \X Symbols \X Periods -> RowSet]
    /\ calc \in [Tasks -> Calcs]
    /\ started \in 0 .. MaxCalculations /\ arrived \in 0 .. MaxQuotes

\* What a row of the table, or one in hand, says of the quotes.
RowIsPriced(row, d, s, p) ==
    /\ row.base >= 0 /\ d \in TradingDays
    /\ row.complete => /\ {<<s, row.base>>, <<s, d>>} \subseteq quoted
                       /\ row.base < d /\ row.base <= d - p + Grace

StoredRowsFit ==
    \A d \in TradeDays, s \in Symbols, p \in Periods :
        rows[<<d, s, p>>] # Unwritten => RowIsPriced(rows[<<d, s, p>>], d, s, p)

\* What a calculation has in hand was so when it was read, and quotes stay.
CalcFits(c) ==
    /\ c.pc \in {"prices", "period", "save"} =>
        c.end \in TradingDays /\ \A s \in c.ends : <<s, c.end>> \in quoted
    /\ c.pc \in {"period", "save"} => \A pb \in c.todo : pb[2] <= c.end - pb[1]
    /\ c.pc = "period" => c.todo # {}
    /\ c.pc = "save" =>
        /\ c.period \in Periods /\ c.records \in [Symbols -> RowSet]
        /\ \A s \in Symbols : RowIsPriced(c.records[s], c.end, s, c.period)
    /\ c.pc # "save" => c.saved = {}
    /\ c.pc = "idle" => ~c.clean

\* A date of the backfill that needs nothing more.
Covered(d, p) ==
    \/ \A s \in Symbols : rows[<<d, s, p>>] # Unwritten
    \/ \A e \in TradingDays : e > d - p

\* The date a calculation is at.
AtDate(c) == IF c.pc = "next" THEN {} ELSE {c.end}

BackfillFits(c) ==
    \E p \in Periods :
        /\ c.periods = {p} /\ c.dates \subseteq c.listed /\ c.listed \subseteq TradingDays
        /\ \A d \in c.listed \ (c.dates \cup AtDate(c)) : Covered(d, p)
        /\ c.pc = "period" => \A pb \in c.todo : pb = <<p, Align(c.end - p)>>
        /\ c.pc = "save" => c.period = p /\ c.todo = {}

\* A calculation that no other one and no quote has met has in hand what is so now.
CleanCalcFits(c) ==
    /\ c.pc \in {"period", "save"} => \A pb \in c.todo : pb[2] = Align(c.end - pb[1])
    /\ c.pc = "save" =>
        /\ Align(c.end - c.period) # None
        /\ \A s \in Symbols : c.records[s].base = BaseDay(s, Align(c.end - c.period))
        /\ \A s \in c.saved : rows[<<c.end, s, c.period>>] = c.records[s]
    /\ c.backfill => BackfillFits(c)

OnlyCalc(t) == \A o \in Tasks \ {t} : calc[o].pc = "idle"

ReturnsInvariant ==
    /\ ReturnsTyped /\ StoredRowsFit
    /\ \A t \in Tasks : CalcFits(calc[t])
    /\ \A t \in Tasks : calc[t].clean => OnlyCalc(t) /\ CleanCalcFits(calc[t])

LEMMA CagrLimits ==
  /\ LastTradeDay \in Nat /\ 1 <= LastTradeDay /\ Grace \in Nat
  /\ TradeDays = 1 .. LastTradeDay /\ IsFiniteSet(TradeDays)
  /\ \A p \in Periods : p \in Nat /\ p >= 1
  /\ MaxCalculations \in Nat /\ MaxQuotes \in Nat
<1>1. LastTradeDay \in Nat /\ 1 <= LastTradeDay
  BY CagrAssumption
<1>2. IsFiniteSet(1 .. LastTradeDay)
  BY <1>1, FS_Interval
<1> QED
  BY <1>1, <1>2, CagrAssumption DEF TradeDays

LEMMA TradingDaysAre ==
  ASSUME quoted \subseteq Symbols \X TradeDays, unpriced \subseteq TradeDays
  PROVE  /\ \A s, e : <<s, e>> \in quoted => e \in TradingDays
         /\ TradingDays \subseteq TradeDays
<1>1. \A q \in quoted : q = <<q[1], q[2]>> /\ q[1] \in Symbols /\ q[2] \in TradeDays
  OBVIOUS
<1>2. \A e : e \in TradingDays <=> e \in unpriced \/ \E q \in quoted : e = q[2]
  BY DEF TradingDays, PricedDays
<1>3. ASSUME NEW e, e \in TradingDays PROVE e \in TradeDays
  BY <1>1, <1>2, <1>3
<1>4. ASSUME NEW s, NEW e, <<s, e>> \in quoted PROVE e \in TradingDays
  BY <1>2, <1>4
<1> QED
  BY <1>3, <1>4

\* fetch_trading_day_on_or_before finds the last trading day.
LEMMA AlignIs ==
  ASSUME quoted \subseteq Symbols \X TradeDays, unpriced \subseteq TradeDays, NEW d \in Int
  PROVE  \/ Align(d) = None /\ \A e \in TradingDays : e > d
         \/ /\ Align(d) \in TradingDays /\ Align(d) # None /\ Align(d) <= d
            /\ \A e \in TradingDays : e <= d => e <= Align(d)
<1>1. /\ OnOrBefore(d) \subseteq TradeDays /\ IsFiniteSet(OnOrBefore(d))
      /\ \A e \in TradeDays : e \in Int /\ e >= 1
  <2>1. OnOrBefore(d) \subseteq TradeDays
    BY TradingDaysAre DEF OnOrBefore
  <2> QED
    BY <2>1, CagrLimits, FS_Subset
<1>2. CASE OnOrBefore(d) = {}
  <2>1. \A e \in TradingDays : e \in Int
    BY <1>1, TradingDaysAre
  <2> QED
    BY <1>2, <2>1 DEF OnOrBefore, Align
<1>3. CASE OnOrBefore(d) # {}
  <2>1. Max(OnOrBefore(d)) \in OnOrBefore(d) /\ \A e \in OnOrBefore(d) : e <= Max(OnOrBefore(d))
    BY <1>1, <1>3, MaxIsGreatest
  <2>2. Align(d) = Max(OnOrBefore(d))
    BY <1>3 DEF Align
  <2> QED
    BY <1>1, <2>1, <2>2 DEF OnOrBefore, None
<1> QED
  BY <1>2, <1>3

\* The first quote in the days of grace.
LEMMA BaseDayIs ==
  ASSUME NEW s, NEW aligned \in TradeDays, quoted \subseteq Symbols \X TradeDays
  PROVE  \/ /\ BaseDay(s, aligned) = None
            /\ \A d \in aligned .. aligned + Grace : <<s, d>> \notin quoted
         \/ /\ BaseDay(s, aligned) \in aligned .. aligned + Grace
            /\ <<s, BaseDay(s, aligned)>> \in quoted /\ BaseDay(s, aligned) \in TradeDays
            /\ \A d \in aligned .. aligned + Grace :
                    <<s, d>> \in quoted => BaseDay(s, aligned) <= d
<1> DEFINE Q == {d \in aligned .. aligned + Grace : <<s, d>> \in quoted}
<1>1. Q \subseteq TradeDays /\ IsFiniteSet(Q) /\ \A d \in Q : d \in Int
  <2>1. Q \subseteq TradeDays
    OBVIOUS
  <2> HIDE DEF Q
  <2>2. IsFiniteSet(Q)
    BY <2>1, CagrLimits, FS_Subset
  <2> QED
    BY <2>1, <2>2, CagrLimits
<1>2. BaseDay(s, aligned) = IF Q = {} THEN None ELSE Min(Q)
  BY DEF BaseDay
<1>3. CASE Q = {}
  BY <1>2, <1>3
<1>4. CASE Q # {}
  <2>1. Min(Q) \in Q /\ \A d \in Q : Min(Q) <= d
    BY <1>1, <1>4, MinIsLeast
  <2> QED
    BY <1>1, <1>2, <1>4, <2>1
<1> QED
  BY <1>3, <1>4

LEMMA NoCalc ==
  /\ Resting \in Calcs /\ Resting.pc = "idle" /\ ~Resting.clean /\ ~Resting.backfill
  /\ Resting.saved = {} /\ CalcFits(Resting)
<1>1. Resting \in Calcs /\ Resting.pc = "idle" /\ ~Resting.clean /\ ~Resting.backfill
      /\ Resting.saved = {}
  BY CagrLimits DEF Resting, Calcs
<1> QED
  BY <1>1 DEF CalcFits

LEMMA ReturnsStart == CBInit => ReturnsInvariant
<1> SUFFICES ASSUME CBInit PROVE ReturnsInvariant
  OBVIOUS
<1>1. Unwritten \in RowSet
  BY CagrLimits DEF Unwritten, RowSet
<1>2. ReturnsTyped
  BY <1>1, NoCalc, CagrLimits DEF CBInit, ReturnsTyped
<1>3. \A t \in Tasks : calc[t] = Resting
  BY DEF CBInit
<1>4. StoredRowsFit
  BY DEF CBInit, StoredRowsFit
<1> QED
  BY <1>2, <1>3, <1>4, NoCalc DEF ReturnsInvariant

\* More quotes make nothing of it untrue.
LEMMA DaysStay ==
  ASSUME quoted \subseteq quoted', unpriced \subseteq unpriced'
  PROVE  TradingDays \subseteq TradingDays'
BY DEF TradingDays, PricedDays

LEMMA RowStaysFit ==
  ASSUME quoted \subseteq quoted', unpriced \subseteq unpriced',
         NEW row, NEW d, NEW s, NEW p, RowIsPriced(row, d, s, p)
  PROVE  RowIsPriced(row, d, s, p)'
BY DaysStay DEF RowIsPriced

LEMMA CalcStaysFit ==
  ASSUME quoted \subseteq quoted', unpriced \subseteq unpriced', NEW c, CalcFits(c)
  PROVE  CalcFits(c)'
BY DaysStay, RowStaysFit DEF CalcFits

LEMMA CalcFitsNext ==
  ASSUME NEW t, NEW c, calc'[t] = c, CalcFits(c)'
  PROVE  CalcFits(calc[t])'
BY DEF CalcFits, RowIsPriced

LEMMA CleanCalcFitsNext ==
  ASSUME NEW t, NEW c, calc'[t] = c, CleanCalcFits(c)'
  PROVE  CleanCalcFits(calc[t])'
BY DEF CleanCalcFits, BackfillFits, AtDate

LEMMA QuoteIsAdded ==
  ASSUME ReturnsInvariant, NEW s \in Symbols, NEW d \in TradeDays, NEW priced \in BOOLEAN,
         AddQuote(s, d, priced)
  PROVE  ReturnsInvariant'
<1> USE DEF ReturnsInvariant
<1>1. /\ quoted' \subseteq Symbols \X TradeDays /\ quoted \subseteq quoted'
      /\ unpriced' \subseteq TradeDays /\ unpriced \subseteq unpriced' /\ UNCHANGED rows
  BY DEF AddQuote, ReturnsTyped
<1>2. \A t \in Tasks : calc'[t] = [calc[t] EXCEPT !.clean = FALSE] /\ calc[t] \in Calcs
  BY DEF AddQuote, ReturnsTyped
<1>3. ASSUME NEW t \in Tasks
      PROVE  calc'[t] \in Calcs /\ ~calc'[t].clean /\ (CalcFits(calc[t]) => CalcFits(calc'[t]))
  <2>1. PICK c \in Calcs : c = calc[t]
    BY <1>2
  <2>2. PICK e : e = [c EXCEPT !.clean = FALSE]
    OBVIOUS
  <2>3. /\ e \in Calcs /\ ~e.clean /\ e.pc = c.pc /\ e.end = c.end /\ e.ends = c.ends
        /\ e.todo = c.todo /\ e.period = c.period /\ e.records = c.records /\ e.saved = c.saved
    BY <2>2 DEF Calcs
  <2>4. CalcFits(c) => CalcFits(e)
    BY <2>3 DEF CalcFits
  <2> QED
    BY <1>2, <2>1, <2>2, <2>3, <2>4
<1>4. ReturnsTyped'
  BY <1>1, <1>3, CagrLimits DEF AddQuote, ReturnsTyped
<1>5. StoredRowsFit'
  BY <1>1, RowStaysFit DEF StoredRowsFit
<1>6. ASSUME NEW t \in Tasks PROVE CalcFits(calc[t])'
  <2>1. PICK c : c = calc'[t]
    OBVIOUS
  <2>2. CalcFits(c)
    BY <1>3, <2>1
  <2> QED
    BY <1>1, <2>1, <2>2, CalcStaysFit, CalcFitsNext
<1>7. \A t \in Tasks : ~calc'[t].clean
  BY <1>3
<1> QED
  BY <1>4, <1>5, <1>6, <1>7

LEMMA CleanCalcStaysFit ==
  ASSUME UNCHANGED <<quoted, unpriced, rows>>, NEW c, CleanCalcFits(c)
  PROVE  CleanCalcFits(c)'
<1>1. UNCHANGED TradingDays
  BY DEF TradingDays, PricedDays
<1>2. \A d : Align(d)' = Align(d)
  BY <1>1 DEF Align, OnOrBefore
<1>3. \A s, d : BaseDay(s, d)' = BaseDay(s, d)
  BY DEF BaseDay
<1>4. \A d, p : Covered(d, p)' <=> Covered(d, p)
  BY <1>1 DEF Covered
<1>5. BackfillFits(c) => BackfillFits(c)'
  BY <1>1, <1>2, <1>4 DEF BackfillFits, AtDate
<1> QED
  BY <1>2, <1>3, <1>5 DEF CleanCalcFits

LEMMA StoredRowsStayFit ==
  ASSUME UNCHANGED <<quoted, unpriced, rows>>, StoredRowsFit
  PROVE  StoredRowsFit'
BY RowStaysFit DEF StoredRowsFit

LEMMA CalcStarts ==
  ASSUME ReturnsInvariant, NEW t \in Tasks, NEW task \in Calcs, Start(t, task),
         task.pc = "next", task.saved = {}, task.backfill => BackfillFits(task)
  PROVE  ReturnsInvariant'
<1> USE DEF ReturnsInvariant
<1>1. UNCHANGED <<quoted, unpriced, rows, arrived>> /\ started' \in 0 .. MaxCalculations
  BY CagrLimits DEF Start, ReturnsTyped
<1>2. PICK b \in BOOLEAN : b <=> \A o \in Tasks : calc[o].pc = "idle"
  OBVIOUS
<1>3. PICK new : new = [task EXCEPT !.clean = b]
  OBVIOUS
<1>4. /\ new \in Calcs /\ new.pc = "next" /\ new.saved = {} /\ new.clean = b
      /\ new.backfill = task.backfill /\ new.dates = task.dates /\ new.listed = task.listed
      /\ new.periods = task.periods
  BY <1>3 DEF Calcs
<1>5. calc' = [u \in Tasks |-> IF u = t THEN new ELSE [calc[u] EXCEPT !.clean = FALSE]]
  BY <1>2, <1>3 DEF Start
<1>6. ASSUME NEW u \in Tasks, u # t
      PROVE  /\ calc'[u] \in Calcs /\ ~calc'[u].clean /\ calc'[u].pc = calc[u].pc
             /\ CalcFits(calc'[u])
  <2>1. PICK c \in Calcs : c = calc[u]
    BY DEF ReturnsTyped
  <2>2. PICK e : e = [c EXCEPT !.clean = FALSE]
    OBVIOUS
  <2>3. /\ e \in Calcs /\ ~e.clean /\ e.pc = c.pc /\ e.end = c.end /\ e.ends = c.ends
        /\ e.todo = c.todo /\ e.period = c.period /\ e.records = c.records /\ e.saved = c.saved
    BY <2>2 DEF Calcs
  <2>4. CalcFits(e)
    BY <2>1, <2>3 DEF CalcFits
  <2>5. calc'[u] = e
    BY <1>5, <1>6, <2>1, <2>2
  <2> QED
    BY <2>1, <2>3, <2>4, <2>5
<1>7. calc'[t] = new
  BY <1>5
<1>8. CalcFits(new) /\ CleanCalcFits(new)
  BY <1>4 DEF CalcFits, CleanCalcFits, BackfillFits, AtDate
<1>9. ReturnsTyped'
  <2>1. calc' \in [Tasks -> Calcs]
    BY <1>4, <1>5, <1>6, <1>7
  <2> QED
    BY <1>1, <2>1 DEF ReturnsTyped
<1>10. ASSUME NEW u \in Tasks PROVE CalcFits(calc[u])'
  <2>1. PICK c : c = calc'[u]
    OBVIOUS
  <2>2. CalcFits(c)
    BY <1>6, <1>7, <1>8, <2>1
  <2> QED
    BY <1>1, <2>1, <2>2, CalcStaysFit, CalcFitsNext
<1>11. ASSUME NEW u \in Tasks, calc'[u].clean PROVE OnlyCalc(u)' /\ CleanCalcFits(calc[u])'
  <2>1. u = t /\ b
    BY <1>4, <1>6, <1>7, <1>11
  <2>2. CleanCalcFits(new)'
    BY <1>1, <1>8, CleanCalcStaysFit
  <2>3. OnlyCalc(t)'
    BY <1>2, <1>6, <2>1 DEF OnlyCalc
  <2> QED
    BY <1>7, <2>1, <2>2, <2>3, CleanCalcFitsNext
<1> QED
  BY <1>1, <1>9, <1>10, <1>11, StoredRowsStayFit

LEMMA ExecuteFits ==
  ASSUME ReturnsInvariant, NEW t \in Tasks, NEW d \in TradeDays \cup {None}, Execute(t, d)
  PROVE  ReturnsInvariant'
<1> DEFINE dates == {IF d = None THEN LastTradeDay ELSE d}
<1>1. dates \subseteq TradeDays
  BY CagrLimits
<1> HIDE DEF dates
<1>2. PICK task : task = [Resting EXCEPT !.pc = "next", !.dates = dates, !.periods = Periods]
  OBVIOUS
<1> PICK r \in Calcs : r = Resting
  BY NoCalc
<1>3. task \in Calcs /\ task.pc = "next" /\ task.saved = {} /\ ~task.backfill
  <2>1. r.saved = {} /\ ~r.backfill
    BY NoCalc
  <2> QED
    BY <1>1, <1>2, <2>1 DEF Calcs
<1>4. Start(t, task)
  BY <1>2 DEF Execute, dates
<1> QED
  BY <1>3, <1>4, CalcStarts

LEMMA BackfillFitsAtStart ==
  ASSUME ReturnsInvariant, NEW t \in Tasks, NEW p \in Periods, BackfillPeriod(t, p)
  PROVE  ReturnsInvariant'
<1>1. DatesMissing(p) \subseteq TradeDays /\ DatesMissing(p) \subseteq TradingDays
  BY DEF DatesMissing, ReturnsInvariant, StoredRowsFit, RowIsPriced
<1>2. PICK task : task = [Resting EXCEPT !.pc = "next", !.backfill = TRUE, !.periods = {p},
                                !.dates = DatesMissing(p), !.listed = DatesMissing(p)]
  OBVIOUS
<1>3. /\ task \in Calcs /\ task.pc = "next" /\ task.saved = {} /\ task.backfill
      /\ task.periods = {p} /\ task.dates = DatesMissing(p) /\ task.listed = DatesMissing(p)
  <2>1. PICK r \in Calcs : r = Resting /\ r.saved = {}
    BY NoCalc
  <2>2. PICK D \in SUBSET TradeDays : D = DatesMissing(p)
    BY <1>1
  <2>3. task = [r EXCEPT !.pc = "next", !.backfill = TRUE, !.periods = {p}, !.dates = D,
                         !.listed = D]
    BY <1>2, <2>1, <2>2
  <2>4. task \in Calcs
    BY <2>3 DEF Calcs
  <2>5. /\ task.pc = "next" /\ task.saved = {} /\ task.backfill
        /\ task.periods = {p} /\ task.dates = D /\ task.listed = D
    BY <2>1, <2>3 DEF Calcs
  <2> QED
    BY <2>2, <2>4, <2>5
<1>4. BackfillFits(task)
  BY <1>1, <1>3 DEF BackfillFits, AtDate
<1>5. Start(t, task)
  BY <1>2 DEF BackfillPeriod
<1> QED
  BY <1>3, <1>4, <1>5, CalcStarts

\* A step of one calculation leaves the others alone, none of which is clean.
LEMMA OneCalcMoves ==
  ASSUME ReturnsInvariant, NEW t \in Tasks, calc[t].pc # "idle", NEW new \in Calcs,
         calc' = [calc EXCEPT ![t] = new], UNCHANGED <<quoted, unpriced, started, arrived>>,
         rows' \in [TradeDays \X Symbols \X Periods -> RowSet], StoredRowsFit',
         CalcFits(new), new.clean => calc[t].clean /\ CleanCalcFits(new)'
  PROVE  ReturnsInvariant'
<1> USE DEF ReturnsInvariant
<1>1. calc' \in [Tasks -> Calcs] /\ calc'[t] = new /\ \A u \in Tasks \ {t} : calc'[u] = calc[u]
  BY DEF ReturnsTyped
<1>2. ReturnsTyped'
  BY <1>1 DEF ReturnsTyped
<1>3. ASSUME NEW u \in Tasks PROVE CalcFits(calc[u])'
  <2>1. PICK c : c = calc'[u]
    OBVIOUS
  <2>2. CalcFits(c)
    BY <1>1, <2>1
  <2> QED
    BY <2>1, <2>2, CalcStaysFit, CalcFitsNext
<1>4. ASSUME NEW u \in Tasks, calc'[u].clean PROVE OnlyCalc(u)' /\ CleanCalcFits(calc[u])'
  <2>1. u = t
    <3>1. CASE u # t
      <4>1. calc[u].clean
        BY <1>1, <1>4, <3>1
      <4> QED
        BY <3>1, <4>1 DEF OnlyCalc
    <3> QED
      BY <3>1
  <2>2. calc[t].clean /\ CleanCalcFits(new)' /\ OnlyCalc(t)
    BY <1>1, <1>4, <2>1
  <2>3. OnlyCalc(t)'
    BY <1>1, <2>2 DEF OnlyCalc
  <2> QED
    BY <1>1, <2>1, <2>2, <2>3, CleanCalcFitsNext
<1> QED
  BY <1>2, <1>3, <1>4

\* A calculation between two dates, or at its end.
LEMMA FinishIs ==
  ASSUME NEW c \in Calcs, NEW e, e = Finish(c)
  PROVE  /\ e \in Calcs
         /\ \/ e = Resting
            \/ /\ e.pc = "next" /\ e.backfill = c.backfill /\ e.clean = c.clean
               /\ e.dates = c.dates /\ e.listed = c.listed /\ e.periods = c.periods
               /\ e.saved = c.saved
<1>1. CASE c.dates = {} /\ ~c.backfill
  BY <1>1, NoCalc DEF Finish
<1>2. CASE ~(c.dates = {} /\ ~c.backfill)
  <2>1. e = [c EXCEPT !.pc = "next", !.end = 0, !.ends = {}, !.todo = {}, !.period = 0]
    BY <1>2 DEF Finish
  <2>2. e \in Calcs
    <3>1. 0 \in 0 .. LastTradeDay /\ 0 \in Periods \cup {0}
      BY CagrLimits
    <3> QED
      BY <2>1, <3>1 DEF Calcs
  <2>3. /\ e.pc = "next" /\ e.backfill = c.backfill /\ e.clean = c.clean
        /\ e.dates = c.dates /\ e.listed = c.listed /\ e.periods = c.periods
        /\ e.saved = c.saved
    BY <2>1 DEF Calcs
  <2> QED
    BY <2>2, <2>3
<1> QED
  BY <1>1, <1>2

LEMMA CalcEnds ==
  ASSUME ReturnsInvariant, NEW t \in Tasks, EndBackfill(t) \/ FailCalc(t)
  PROVE  ReturnsInvariant'
<1>1. calc[t].pc # "idle" /\ calc' = [calc EXCEPT ![t] = Resting]
      /\ UNCHANGED <<quoted, unpriced, rows, started, arrived>>
  BY DEF EndBackfill, FailCalc
<1>2. rows' \in [TradeDays \X Symbols \X Periods -> RowSet] /\ StoredRowsFit'
  BY <1>1, StoredRowsStayFit DEF ReturnsInvariant, ReturnsTyped
<1> QED
  BY <1>1, <1>2, NoCalc, OneCalcMoves

LEMMA EndIsAligned ==
  ASSUME ReturnsInvariant, NEW t \in Tasks, AlignEnd(t)
  PROVE  ReturnsInvariant'
<1> PICK c \in Calcs : c = calc[t]
  BY DEF ReturnsInvariant, ReturnsTyped
<1> PICK d : d = Min(c.dates)
  OBVIOUS
<1> PICK rest : rest = [c EXCEPT !.dates = @ \ {d}]
  OBVIOUS
<1>1. /\ c.pc = "next" /\ c.dates # {} /\ UNCHANGED <<quoted, unpriced, rows, started, arrived>>
      /\ calc' = [calc EXCEPT ![t] =
            IF Align(d) = None THEN Finish(rest)
            ELSE [rest EXCEPT !.pc = "prices", !.end = Align(d),
                              !.ends = {s \in Symbols : <<s, Align(d)>> \in quoted}]]
  BY DEF AlignEnd
<1>2. /\ quoted \subseteq Symbols \X TradeDays /\ unpriced \subseteq TradeDays
      /\ CalcFits(c) /\ c.saved = {}
  BY <1>1 DEF ReturnsInvariant, ReturnsTyped, CalcFits
<1>3. d \in c.dates /\ d \in TradeDays /\ d \in Int
  <2>1. c.dates \in SUBSET TradeDays
    BY DEF Calcs
  <2>2. IsFiniteSet(c.dates) /\ \A x \in TradeDays : x \in Int
    BY <2>1, CagrLimits, FS_Subset
  <2> QED
    BY <1>1, <2>1, <2>2, MinIsLeast
<1>4. /\ rest \in Calcs /\ rest.pc = "next" /\ rest.backfill = c.backfill /\ rest.clean = c.clean
      /\ rest.dates = c.dates \ {d} /\ rest.listed = c.listed /\ rest.periods = c.periods
      /\ rest.saved = {}
  BY <1>1, <1>2 DEF Calcs
<1>5. rows' \in [TradeDays \X Symbols \X Periods -> RowSet] /\ StoredRowsFit'
  BY <1>1, StoredRowsStayFit DEF ReturnsInvariant, ReturnsTyped
<1>6. c.clean => CleanCalcFits(c)
  BY DEF ReturnsInvariant
\* The listed dates are trading days.
<1>7. c.clean /\ c.backfill => Align(d) = d
  <2>1. c.clean /\ c.backfill => d \in TradingDays
    BY <1>3, <1>6 DEF CleanCalcFits, BackfillFits
  <2> QED
    BY <1>2, <1>3, <2>1, AlignIs, TradingDaysAre, CagrLimits
<1>8. CASE Align(d) = None
  <2>1. PICK new : new = Finish(rest)
    OBVIOUS
  <2>2. ~(c.clean /\ c.backfill)
    BY <1>3, <1>7, <1>8, CagrLimits DEF None
  <2>3. /\ new \in Calcs
        /\ \/ new = Resting
           \/ /\ new.pc = "next" /\ new.saved = {} /\ new.clean = c.clean
              /\ new.backfill = c.backfill
    <3>1. PICK r \in Calcs : r = rest
      BY <1>4
    <3>2. /\ new \in Calcs
          /\ \/ new = Resting
             \/ /\ new.pc = "next" /\ new.backfill = r.backfill /\ new.clean = r.clean
                /\ new.saved = r.saved
      BY <2>1, <3>1, FinishIs
    <3> QED
      BY <1>4, <3>1, <3>2
  <2>4. CalcFits(new) /\ (new.clean => c.clean /\ CleanCalcFits(new))
    <3>1. CASE new = Resting
      BY <3>1, NoCalc
    <3>2. CASE new # Resting
      <4>1. CalcFits(new)
        BY <2>3, <3>2 DEF CalcFits
      <4>2. new.clean => c.clean /\ CleanCalcFits(new)
        BY <2>2, <2>3, <3>2 DEF CleanCalcFits
      <4> QED
        BY <4>1, <4>2
    <3> QED
      BY <3>1, <3>2
  <2> QED
    BY <1>1, <1>5, <1>8, <2>1, <2>3, <2>4, CleanCalcStaysFit, OneCalcMoves
<1>9. CASE Align(d) # None
  <2>1. PICK ends \in SUBSET Symbols : ends = {s \in Symbols : <<s, Align(d)>> \in quoted}
    OBVIOUS
  <2>2. PICK new : new = [rest EXCEPT !.pc = "prices", !.end = Align(d), !.ends = ends]
    OBVIOUS
  <2>3. Align(d) \in TradingDays /\ Align(d) \in 0 .. LastTradeDay
    <3>1. Align(d) \in TradingDays
      BY <1>2, <1>3, <1>9, AlignIs
    <3>2. Align(d) \in TradeDays
      BY <1>2, <3>1, TradingDaysAre
    <3> QED
      BY <3>1, <3>2, CagrLimits
  <2>4. /\ new \in Calcs /\ new.pc = "prices" /\ new.end = Align(d) /\ new.ends = ends
        /\ new.backfill = c.backfill /\ new.clean = c.clean /\ new.dates = c.dates \ {d}
        /\ new.listed = c.listed /\ new.periods = c.periods /\ new.saved = {}
    <3>1. PICK e \in 0 .. LastTradeDay : e = Align(d)
      BY <2>3
    <3>2. new = [rest EXCEPT !.pc = "prices", !.end = e, !.ends = ends]
      BY <2>2, <3>1
    <3>3. PICK r \in Calcs : r = rest
      BY <1>4
    <3>4. new = [r EXCEPT !.pc = "prices", !.end = e, !.ends = ends]
      BY <3>2, <3>3
    <3>5. new \in Calcs
      BY <3>4 DEF Calcs
    <3>6. /\ new.pc = "prices" /\ new.end = e /\ new.ends = ends
          /\ new.backfill = r.backfill /\ new.clean = r.clean /\ new.dates = r.dates
          /\ new.listed = r.listed /\ new.periods = r.periods /\ new.saved = r.saved
      BY <3>4 DEF Calcs
    <3> QED
      BY <1>4, <3>1, <3>3, <3>5, <3>6
  <2>5. CalcFits(new)
    BY <2>1, <2>3, <2>4 DEF CalcFits
  <2>6. c.clean => CleanCalcFits(new)
    <3> SUFFICES ASSUME c.clean, c.backfill PROVE BackfillFits(new)
      BY <2>4 DEF CleanCalcFits
    <3>1. BackfillFits(c) /\ new.end = d
      BY <1>6, <1>7, <2>4 DEF CleanCalcFits
    <3> QED
      BY <1>1, <1>3, <2>4, <3>1 DEF BackfillFits, AtDate
  <2> QED
    BY <1>1, <1>5, <1>9, <2>1, <2>2, <2>4, <2>5, <2>6, CleanCalcStaysFit, OneCalcMoves
<1> QED
  BY <1>8, <1>9

LEMMA BasesAreAligned ==
  ASSUME ReturnsInvariant, NEW t \in Tasks, AlignBases(t)
  PROVE  ReturnsInvariant'
<1> PICK c \in Calcs : c = calc[t]
  BY DEF ReturnsInvariant, ReturnsTyped
<1> PICK aligned : aligned = {pb \in c.periods \X TradeDays : pb[2] = Align(c.end - pb[1])}
  OBVIOUS
<1>1. /\ c.pc = "prices" /\ UNCHANGED <<quoted, unpriced, rows, started, arrived>>
      /\ calc' = [calc EXCEPT ![t] =
            IF aligned = {} THEN Finish(c) ELSE [c EXCEPT !.pc = "period", !.todo = aligned]]
  BY DEF AlignBases
<1>2. /\ quoted \subseteq Symbols \X TradeDays /\ unpriced \subseteq TradeDays
      /\ CalcFits(c) /\ c.saved = {}
      /\ c.end \in TradingDays /\ c.end \in TradeDays /\ c.end \in Int
  BY <1>1, TradingDaysAre, CagrLimits DEF ReturnsInvariant, ReturnsTyped, CalcFits
<1>3. c.periods \in SUBSET Periods /\ aligned \in SUBSET (Periods \X TradeDays)
  BY DEF Calcs
<1>4. \A pb \in aligned : /\ pb[1] \in c.periods /\ pb[1] \in Int /\ pb[2] \in TradeDays
                          /\ pb[2] = Align(c.end - pb[1]) /\ pb = <<pb[1], pb[2]>>
  BY <1>3, CagrLimits
<1>5. rows' \in [TradeDays \X Symbols \X Periods -> RowSet] /\ StoredRowsFit'
  BY <1>1, StoredRowsStayFit DEF ReturnsInvariant, ReturnsTyped
<1>6. c.clean => CleanCalcFits(c)
  BY DEF ReturnsInvariant
<1>7. CASE aligned = {}
  <2>1. PICK new : new = Finish(c)
    OBVIOUS
  <2>2. c.clean /\ new.backfill /\ new # Resting => BackfillFits(new)
    <3> SUFFICES ASSUME c.clean, new.backfill, new # Resting PROVE BackfillFits(new)
      OBVIOUS
    <3>1. /\ new.pc = "next" /\ c.backfill /\ new.dates = c.dates
          /\ new.listed = c.listed /\ new.periods = c.periods
      BY <2>1, FinishIs
    <3>2. PICK p \in Periods :
        /\ c.periods = {p} /\ c.dates \subseteq c.listed /\ c.listed \subseteq TradingDays
        /\ \A d \in c.listed \ (c.dates \cup AtDate(c)) : Covered(d, p)
      BY <1>6, <3>1 DEF CleanCalcFits, BackfillFits
    <3>3. Covered(c.end, p)
      <4>1. p \in Int /\ <<p, Align(c.end - p)>> \notin aligned
        BY <1>7, CagrLimits
      <4>2. Align(c.end - p) \notin TradeDays
        BY <3>2, <4>1
      <4> QED
        BY <1>2, <4>1, <4>2, AlignIs, TradingDaysAre DEF Covered
    <3>4. \A d \in c.listed \ c.dates : Covered(d, p)
      BY <1>1, <3>2, <3>3 DEF AtDate
    <3> QED
      BY <3>1, <3>2, <3>4 DEF BackfillFits, AtDate
  <2>3. new \in Calcs /\ CalcFits(new) /\ (new.clean => c.clean /\ CleanCalcFits(new))
    BY <1>2, <2>1, <2>2, FinishIs, NoCalc DEF CalcFits, CleanCalcFits
  <2> QED
    BY <1>1, <1>5, <1>7, <2>1, <2>3, CleanCalcStaysFit, OneCalcMoves
<1>8. CASE aligned # {}
  <2>1. PICK new : new = [c EXCEPT !.pc = "period", !.todo = aligned]
    OBVIOUS
  <2>2. /\ new \in Calcs /\ new.pc = "period" /\ new.end = c.end /\ new.ends = c.ends
        /\ new.backfill = c.backfill /\ new.clean = c.clean /\ new.dates = c.dates
        /\ new.listed = c.listed /\ new.periods = c.periods /\ new.saved = {}
        /\ new.todo = aligned
    BY <1>2, <1>3, <2>1 DEF Calcs
  <2>3. CalcFits(new)
    <3>1. \A pb \in aligned : pb[2] <= c.end - pb[1]
      <4> SUFFICES ASSUME NEW pb \in aligned PROVE pb[2] <= c.end - pb[1]
        OBVIOUS
      <4>1. c.end - pb[1] \in Int /\ pb[2] = Align(c.end - pb[1]) /\ pb[2] # None
        BY <1>2, <1>4, CagrLimits DEF None
      <4> QED
        BY <1>2, <4>1, AlignIs
    <3> QED
      BY <1>1, <1>2, <1>8, <2>2, <3>1 DEF CalcFits
  <2>4. c.clean => CleanCalcFits(new)
    <3>1. c.clean /\ c.backfill => BackfillFits(new)
      BY <1>1, <1>4, <1>6, <2>2 DEF CleanCalcFits, BackfillFits, AtDate
    <3> QED
      BY <1>4, <2>2, <3>1 DEF CleanCalcFits
  <2> QED
    BY <1>1, <1>5, <1>8, <2>1, <2>2, <2>3, <2>4, CleanCalcStaysFit, OneCalcMoves
<1> QED
  BY <1>7, <1>8

LEMMA SomeShortest ==
  ASSUME NEW todo \in SUBSET (Periods \X TradeDays), todo # {}
  PROVE  \E pb \in todo : \A qb \in todo : pb[1] <= qb[1]
<1> DEFINE lengths == {pb[1] : pb \in todo}
<1>1. lengths \subseteq Nat /\ lengths # {}
  BY CagrLimits
<1>2. \A pb \in todo : pb[1] \in lengths
  OBVIOUS
<1>3. \A m \in lengths : \E pb \in todo : m = pb[1]
  OBVIOUS
<1> HIDE DEF lengths
<1>4. PICK m \in lengths : \A i \in lengths : <<i, m>> \notin OpToRel(<, Nat)
  BY <1>1, NatLessThanWellFounded, WFMin
<1>5. \A i \in lengths : ~(i < m)
  BY <1>1, <1>4 DEF OpToRel
<1>6. \A i \in lengths : m <= i
  BY <1>1, <1>5
<1> QED
  BY <1>2, <1>3, <1>6

\* A row built of quotes fits them.
LEMMA RecordFits ==
  ASSUME quoted \subseteq Symbols \X TradeDays, unpriced \subseteq TradeDays,
         NEW s \in Symbols, NEW p \in Periods,
         NEW aligned \in TradeDays, NEW end \in TradingDays, aligned <= end - p,
         NEW hasEnd \in BOOLEAN, hasEnd => <<s, end>> \in quoted,
         NEW row, row = BuildRecord(BaseDay(s, aligned), end, hasEnd)
  PROVE  row \in RowSet /\ RowIsPriced(row, end, s, p) /\ row.base = BaseDay(s, aligned)
<1>1. PICK base \in 0 .. LastTradeDay :
        /\ base = BaseDay(s, aligned)
        /\ base # None => <<s, base>> \in quoted /\ base <= aligned + Grace
  <2>1. CASE BaseDay(s, aligned) = None
    BY <2>1, CagrLimits DEF None
  <2>2. CASE BaseDay(s, aligned) # None
    <3>1. /\ BaseDay(s, aligned) \in aligned .. aligned + Grace
          /\ <<s, BaseDay(s, aligned)>> \in quoted /\ BaseDay(s, aligned) \in TradeDays
      BY <2>2, BaseDayIs
    <3>2. BaseDay(s, aligned) \in 0 .. LastTradeDay
      BY <3>1, CagrLimits
    <3>3. BaseDay(s, aligned) <= aligned + Grace
      BY <3>1, CagrLimits
    <3> QED
      BY <3>1, <3>2, <3>3
  <2> QED
    BY <2>1, <2>2
<1>2. PICK b \in BOOLEAN : b <=> base # None /\ hasEnd /\ base < end
  OBVIOUS
<1>3. row = [base |-> base, complete |-> b]
  BY <1>1, <1>2 DEF BuildRecord
<1>4. row \in RowSet /\ row.base = base /\ row.complete = b
  BY <1>3, CagrLimits DEF RowSet
<1>5. end \in Int /\ p \in Int /\ aligned \in Int
  BY TradingDaysAre, CagrLimits
<1>6. b => base <= end - p + Grace
  BY <1>1, <1>2, <1>5, CagrLimits
<1>7. RowIsPriced(row, end, s, p)
  BY <1>1, <1>2, <1>4, <1>6 DEF RowIsPriced
<1> QED
  BY <1>1, <1>4, <1>7

LEMMA PeriodIsBuilt ==
  ASSUME ReturnsInvariant, NEW t \in Tasks, BuildPeriod(t)
  PROVE  ReturnsInvariant'
<1> PICK c \in Calcs : c = calc[t]
  BY DEF ReturnsInvariant, ReturnsTyped
<1> PICK pb : pb = CHOOSE xb \in calc[t].todo : \A qb \in calc[t].todo : xb[1] <= qb[1]
  OBVIOUS
<1> PICK built : built = [s \in Symbols |->
                                BuildRecord(BaseDay(s, pb[2]), calc[t].end, s \in calc[t].ends)]
  OBVIOUS
<1> PICK new : new = [calc[t] EXCEPT !.pc = "save", !.period = pb[1], !.todo = @ \ {pb},
                               !.saved = {}, !.records = built]
  OBVIOUS
<1>1. /\ c.pc = "period" /\ UNCHANGED <<quoted, unpriced, rows, started, arrived>>
      /\ calc' = [calc EXCEPT ![t] = new]
  <2>1. c.pc = "period" /\ UNCHANGED <<quoted, unpriced, rows, started, arrived>>
    BY DEF BuildPeriod
  <2>3. calc' = [calc EXCEPT ![t] = new]
    BY DEF BuildPeriod
  <2> QED
    BY <2>1, <2>3
<1>2. /\ quoted \subseteq Symbols \X TradeDays /\ unpriced \subseteq TradeDays
      /\ CalcFits(c) /\ c.todo # {}
      /\ c.end \in TradingDays /\ c.end \in TradeDays /\ c.end \in Int
  <2>1. /\ quoted \subseteq Symbols \X TradeDays /\ unpriced \subseteq TradeDays
        /\ CalcFits(c)
    BY DEF ReturnsInvariant, ReturnsTyped
  <2>2. c.todo # {} /\ c.end \in TradingDays
    BY <1>1, <2>1 DEF CalcFits
  <2> QED
    BY <2>1, <2>2, TradingDaysAre, CagrLimits
<1>3. c.todo \in SUBSET (Periods \X TradeDays)
  BY DEF Calcs
<1>4. pb \in c.todo /\ pb[1] \in Periods /\ pb[2] \in TradeDays /\ pb[2] <= c.end - pb[1]
  <2>1. pb \in c.todo
    BY <1>2, <1>3, SomeShortest
  <2> QED
    BY <1>1, <1>2, <1>3, <2>1 DEF CalcFits
<1>5. ASSUME NEW s \in Symbols
      PROVE  /\ built[s] \in RowSet /\ RowIsPriced(built[s], c.end, s, pb[1])
             /\ built[s].base = BaseDay(s, pb[2])
  <2>1. PICK b \in BOOLEAN : b <=> s \in c.ends
    OBVIOUS
  <2>2. built[s] = BuildRecord(BaseDay(s, pb[2]), c.end, b)
    <3>1. b = (s \in c.ends)
      BY <2>1
    <3> QED
      BY <3>1
  <2>3. b => <<s, c.end>> \in quoted
    BY <1>1, <1>2, <2>1 DEF CalcFits
  <2> QED
    BY <1>2, <1>4, <2>2, <2>3, RecordFits
<1>6. built \in [Symbols -> RowSet]
  BY <1>5
<1>7. /\ new \in Calcs /\ new.pc = "save" /\ new.end = c.end /\ new.ends = c.ends
      /\ new.backfill = c.backfill /\ new.clean = c.clean /\ new.dates = c.dates
      /\ new.listed = c.listed /\ new.periods = c.periods /\ new.saved = {}
      /\ new.todo = c.todo \ {pb} /\ new.period = pb[1] /\ new.records = built
  <2>1. PICK p \in Periods : p = pb[1]
    BY <1>4
  <2>2. PICK todo \in SUBSET (Periods \X TradeDays) : todo = c.todo \ {pb}
    BY <1>3
  <2>3. new = [c EXCEPT !.pc = "save", !.period = p, !.todo = todo,
                        !.saved = {}, !.records = built]
    BY <2>1, <2>2
  <2>5. new \in Calcs
    <3>1. built \in [Symbols -> RowSet] \cup {<<>>} /\ p \in Periods \cup {0}
      BY <1>6
    <3>2. PICK R : R = [Symbols -> RowSet] \cup {<<>>}
      OBVIOUS
    <3> QED
      BY <2>3, <3>1, <3>2 DEF Calcs
  <2>4. /\ new.pc = "save" /\ new.end = c.end /\ new.ends = c.ends
        /\ new.backfill = c.backfill /\ new.clean = c.clean /\ new.dates = c.dates
        /\ new.listed = c.listed /\ new.periods = c.periods /\ new.saved = {}
        /\ new.todo = todo /\ new.period = p /\ new.records = built
    BY <2>3 DEF Calcs
  <2> QED
    BY <2>1, <2>2, <2>4, <2>5
<1>8. rows' \in [TradeDays \X Symbols \X Periods -> RowSet] /\ StoredRowsFit'
  BY <1>1, StoredRowsStayFit DEF ReturnsInvariant, ReturnsTyped
<1>9. CalcFits(new)
  BY <1>1, <1>2, <1>4, <1>5, <1>6, <1>7 DEF CalcFits
<1>10. new.clean => c.clean /\ CleanCalcFits(new)
  <2> SUFFICES ASSUME c.clean PROVE CleanCalcFits(new)
    BY <1>7
  <2>1. CleanCalcFits(c) /\ pb[2] = Align(c.end - pb[1])
    BY <1>1, <1>4 DEF ReturnsInvariant, CleanCalcFits
  <2>2. Align(new.end - new.period) # None /\ pb[2] = Align(new.end - new.period)
    BY <1>4, <1>7, <2>1, CagrLimits DEF None
  <2>3. \A s \in Symbols : new.records[s].base = BaseDay(s, Align(new.end - new.period))
    BY <1>5, <1>7, <2>2
  <2>4. c.backfill => BackfillFits(new)
    <3> SUFFICES ASSUME c.backfill PROVE BackfillFits(new)
      OBVIOUS
    <3>1. PICK p \in Periods :
        /\ c.periods = {p} /\ c.dates \subseteq c.listed /\ c.listed \subseteq TradingDays
        /\ \A d \in c.listed \ (c.dates \cup AtDate(c)) : Covered(d, p)
        /\ \A qb \in c.todo : qb = <<p, Align(c.end - p)>>
      BY <1>1, <2>1 DEF CleanCalcFits, BackfillFits
    <3>2. new.period = p /\ new.todo = {}
      BY <1>4, <1>7, <3>1
    <3> QED
      BY <1>1, <1>7, <3>1, <3>2 DEF BackfillFits, AtDate
  <2>5. \A qb \in new.todo : qb[2] = Align(new.end - qb[1])
    BY <1>1, <1>7, <2>1 DEF CleanCalcFits
  <2> QED
    BY <1>7, <2>2, <2>3, <2>4, <2>5 DEF CleanCalcFits
<1>11. new.clean => calc[t].clean /\ CleanCalcFits(new)'
  BY <1>1, <1>10, CleanCalcStaysFit
<1>12. new \in Calcs /\ calc[t].pc # "idle"
  BY <1>1, <1>7
<1> QED
  BY <1>1, <1>8, <1>9, <1>11, <1>12, OneCalcMoves

\* What a chunk writes.
LEMMA ChunkIsWritten ==
  ASSUME ReturnsInvariant, NEW t \in Tasks, NEW chunk \in SUBSET Symbols, SaveChunk(t, chunk),
         NEW c \in Calcs, c = calc[t]
  PROVE  /\ c.pc = "save" /\ c.period \in Periods /\ c.end \in TradeDays
         /\ c.end \in TradingDays /\ c.records \in [Symbols -> RowSet]
         /\ UNCHANGED <<quoted, unpriced, started, arrived>>
         /\ rows' \in [TradeDays \X Symbols \X Periods -> RowSet]
         /\ \A s \in Symbols : RowIsPriced(c.records[s], c.end, s, c.period)
         /\ \A s \in chunk : rows'[<<c.end, s, c.period>>] = c.records[s]
         /\ \A d \in TradeDays, s \in Symbols, p \in Periods :
                d # c.end \/ s \notin chunk \/ p # c.period
                => rows'[<<d, s, p>>] = rows[<<d, s, p>>]
<1>1. c.pc = "save" /\ UNCHANGED <<quoted, unpriced, started, arrived>>
  BY DEF SaveChunk
<1>2. CalcFits(c) /\ quoted \subseteq Symbols \X TradeDays /\ unpriced \subseteq TradeDays
  BY DEF ReturnsInvariant, ReturnsTyped
<1>3. /\ c.period \in Periods /\ c.records \in [Symbols -> RowSet]
      /\ \A s \in Symbols : RowIsPriced(c.records[s], c.end, s, c.period)
  BY <1>1, <1>2 DEF CalcFits
<1>4. c.end \in TradingDays /\ c.end \in TradeDays
  <2>1. c.end \in TradingDays
    BY <1>1, <1>2 DEF CalcFits
  <2> QED
    BY <1>2, <2>1, TradingDaysAre
<1>5. rows' = [dsp \in TradeDays \X Symbols \X Periods |->
                IF dsp[1] = c.end /\ dsp[2] \in chunk /\ dsp[3] = c.period
                THEN c.records[dsp[2]] ELSE rows[dsp]]
  BY DEF SaveChunk, Upsert
<1>6. rows \in [TradeDays \X Symbols \X Periods -> RowSet]
  BY DEF ReturnsInvariant, ReturnsTyped
<1>7. rows' \in [TradeDays \X Symbols \X Periods -> RowSet]
  <2> SUFFICES ASSUME NEW dsp \in TradeDays \X Symbols \X Periods PROVE rows'[dsp] \in RowSet
    BY <1>5
  <2>1. rows'[dsp] = c.records[dsp[2]] \/ rows'[dsp] = rows[dsp]
    BY <1>5
  <2> QED
    BY <1>3, <1>6, <2>1
<1>8. \A s \in chunk : rows'[<<c.end, s, c.period>>] = c.records[s]
  BY <1>3, <1>4, <1>5
<1>9. \A d \in TradeDays, s \in Symbols, p \in Periods :
        d # c.end \/ s \notin chunk \/ p # c.period
        => rows'[<<d, s, p>>] = rows[<<d, s, p>>]
  BY <1>5
<1> QED
  BY <1>1, <1>3, <1>4, <1>7, <1>8, <1>9

LEMMA WrittenRow ==
  ASSUME NEW row, NEW d, NEW s, NEW p, RowIsPriced(row, d, s, p)
  PROVE  row # Unwritten
<1>1. Unwritten.base = -1 /\ row.base >= 0
  BY DEF RowIsPriced, Unwritten
<1> QED
  BY <1>1

LEMMA ChunkIsSaved ==
  ASSUME ReturnsInvariant, NEW t \in Tasks, NEW chunk \in SUBSET Symbols, SaveChunk(t, chunk)
  PROVE  ReturnsInvariant'
<1> PICK c \in Calcs : c = calc[t]
  BY DEF ReturnsInvariant, ReturnsTyped
<1> PICK saved \in SUBSET Symbols : saved = c.saved \cup chunk
  BY DEF Calcs
<1> PICK done : done = [c EXCEPT !.records = <<>>, !.saved = {}, !.period = 0]
  OBVIOUS
<1> PICK new : new = IF ~SavedAll(saved) THEN [c EXCEPT !.saved = saved]
                     ELSE IF c.todo # {} THEN [done EXCEPT !.pc = "period"]
                     ELSE Finish(done)
  OBVIOUS
<1>1. /\ c.pc = "save" /\ c.period \in Periods /\ c.end \in TradeDays
      /\ c.end \in TradingDays /\ c.records \in [Symbols -> RowSet]
      /\ UNCHANGED <<quoted, unpriced, started, arrived>>
      /\ rows' \in [TradeDays \X Symbols \X Periods -> RowSet]
      /\ \A s \in Symbols : RowIsPriced(c.records[s], c.end, s, c.period)
      /\ \A s \in chunk : rows'[<<c.end, s, c.period>>] = c.records[s]
      /\ \A d \in TradeDays, s \in Symbols, p \in Periods :
             d # c.end \/ s \notin chunk \/ p # c.period
             => rows'[<<d, s, p>>] = rows[<<d, s, p>>]
  BY ChunkIsWritten
<1>2. calc' = [calc EXCEPT ![t] = new]
  BY DEF SaveChunk
<1>3. CalcFits(c) /\ (c.clean => CleanCalcFits(c)) /\ StoredRowsFit
  BY DEF ReturnsInvariant
<1>4. /\ UNCHANGED TradingDays /\ \A d : Align(d)' = Align(d)
      /\ \A s, d : BaseDay(s, d)' = BaseDay(s, d)
      /\ \A row, d, s, p : RowIsPriced(row, d, s, p)' <=> RowIsPriced(row, d, s, p)
  BY <1>1 DEF TradingDays, PricedDays, Align, OnOrBefore, BaseDay, RowIsPriced
<1>5. StoredRowsFit'
  <2> SUFFICES ASSUME NEW d \in TradeDays, NEW s \in Symbols, NEW p \in Periods,
                      rows'[<<d, s, p>>] # Unwritten
               PROVE  RowIsPriced(rows'[<<d, s, p>>], d, s, p)
    BY <1>1 DEF StoredRowsFit, RowIsPriced, TradingDays, PricedDays
  <2>1. CASE d = c.end /\ s \in chunk /\ p = c.period
    BY <1>1, <2>1
  <2>2. CASE d # c.end \/ s \notin chunk \/ p # c.period
    <3>1. rows'[<<d, s, p>>] = rows[<<d, s, p>>]
      BY <1>1, <2>2
    <3> QED
      BY <1>3, <3>1 DEF StoredRowsFit
  <2> QED
    BY <2>1, <2>2
\* What was written stays so.
<1>6. \A d \in TradeDays, s \in Symbols, p \in Periods :
        rows[<<d, s, p>>] # Unwritten => rows'[<<d, s, p>>] # Unwritten
  <2> SUFFICES ASSUME NEW d \in TradeDays, NEW s \in Symbols, NEW p \in Periods,
                      rows[<<d, s, p>>] # Unwritten
               PROVE  rows'[<<d, s, p>>] # Unwritten
    OBVIOUS
  <2>1. CASE d = c.end /\ s \in chunk /\ p = c.period
    <3>1. rows'[<<d, s, p>>] = c.records[s] /\ RowIsPriced(c.records[s], d, s, p)
      BY <1>1, <2>1
    <3> QED
      BY <3>1, WrittenRow
  <2>2. CASE d # c.end \/ s \notin chunk \/ p # c.period
    BY <1>1, <2>2
  <2> QED
    BY <2>1, <2>2
<1>7. \A d \in TradeDays, p \in Periods : Covered(d, p) => Covered(d, p)'
  BY <1>4, <1>6 DEF Covered
<1>8. c.clean => \A s \in saved : rows'[<<c.end, s, c.period>>] = c.records[s]
  BY <1>1, <1>3 DEF CleanCalcFits
<1>9. c.clean /\ c.backfill => \E p \in Periods :
        /\ c.periods = {p} /\ c.dates \subseteq c.listed /\ c.listed \subseteq TradingDays
        /\ \A d \in c.listed \ (c.dates \cup {c.end}) : Covered(d, p)'
        /\ c.period = p /\ c.todo = {}
  <2> SUFFICES ASSUME c.clean, c.backfill
               PROVE  \E p \in Periods :
        /\ c.periods = {p} /\ c.dates \subseteq c.listed /\ c.listed \subseteq TradingDays
        /\ \A d \in c.listed \ (c.dates \cup {c.end}) : Covered(d, p)'
        /\ c.period = p /\ c.todo = {}
    OBVIOUS
  <2>1. PICK p \in Periods :
        /\ c.periods = {p} /\ c.dates \subseteq c.listed /\ c.listed \subseteq TradingDays
        /\ \A d \in c.listed \ (c.dates \cup {c.end}) : Covered(d, p)
        /\ c.period = p /\ c.todo = {}
    BY <1>1, <1>3 DEF CleanCalcFits, BackfillFits, AtDate
  <2>2. c.listed \in SUBSET TradeDays
    BY DEF Calcs
  <2> QED
    BY <1>7, <2>1, <2>2
<1>10. CASE saved # Symbols
  <2>1. new = [c EXCEPT !.saved = saved]
    BY <1>10 DEF SavedAll
  <2>2. new \in Calcs
    BY <2>1 DEF Calcs
  <2>3. /\ new.pc = "save" /\ new.end = c.end /\ new.ends = c.ends
        /\ new.backfill = c.backfill /\ new.clean = c.clean /\ new.dates = c.dates
        /\ new.listed = c.listed /\ new.periods = c.periods /\ new.saved = saved
        /\ new.todo = c.todo /\ new.period = c.period /\ new.records = c.records
    BY <1>1, <2>1 DEF Calcs
  <2>4. CalcFits(new)
    BY <1>1, <1>3, <2>3 DEF CalcFits
  <2>5. new.clean => c.clean /\ CleanCalcFits(new)'
    <3> SUFFICES ASSUME c.clean PROVE CleanCalcFits(new)'
      BY <2>3
    <3>1. c.backfill => BackfillFits(new)'
      <4> SUFFICES ASSUME c.backfill PROVE BackfillFits(new)'
        OBVIOUS
      <4>1. PICK p \in Periods :
        /\ c.periods = {p} /\ c.dates \subseteq c.listed /\ c.listed \subseteq TradingDays
        /\ \A d \in c.listed \ (c.dates \cup {c.end}) : Covered(d, p)'
        /\ c.period = p /\ c.todo = {}
        BY <1>9
      <4>2. AtDate(new)' = {c.end}
        BY <2>3 DEF AtDate
      <4> QED
        BY <1>4, <2>3, <4>1, <4>2 DEF BackfillFits
    <3>2. CleanCalcFits(c)
      BY <1>3
    <3>3. \A pb \in new.todo : pb[2] = Align(new.end - pb[1])'
      BY <1>1, <1>4, <2>3, <3>2 DEF CleanCalcFits
    <3>4. PICK a : a = Align(c.end - c.period)
      OBVIOUS
    <3>5. a # None /\ Align(new.end - new.period) = a
      <4>1. new.end - new.period = c.end - c.period
        BY <2>3
      <4> QED
        BY <1>1, <3>2, <3>4, <4>1 DEF CleanCalcFits
    <3>6. /\ Align(new.end - new.period)' # None
          /\ \A s \in Symbols : (new.records[s].base = BaseDay(s, Align(new.end - new.period)))'
      <4>1. \A s \in Symbols : new.records[s].base = BaseDay(s, Align(new.end - new.period))
        <5>1. \A s \in Symbols : c.records[s].base = BaseDay(s, a)
          BY <1>1, <3>2, <3>4 DEF CleanCalcFits
        <5> QED
          BY <2>3, <3>5, <5>1
      <4>2. /\ \A d : Align(d)' = Align(d)
            /\ \A s, d : BaseDay(s, d)' = BaseDay(s, d)
        BY <1>4
      <4> QED
        BY <3>5, <4>1, <4>2
    <3>7. ASSUME NEW s \in new.saved
          PROVE  rows'[<<new.end, s, new.period>>] = new.records[s]
      <4>1. s \in saved
        BY <2>3
      <4>2. rows'[<<c.end, s, c.period>>] = c.records[s]
        BY <1>8, <4>1
      <4> QED
        BY <2>3, <4>2
    <3> QED
      BY <2>3, <3>1, <3>3, <3>6, <3>7 DEF CleanCalcFits
  <2> QED
    BY <1>1, <1>2, <1>5, <2>2, <2>4, <2>5, OneCalcMoves
<1>11. /\ done \in Calcs /\ done.pc = "save" /\ done.end = c.end /\ done.ends = c.ends
       /\ done.backfill = c.backfill /\ done.clean = c.clean /\ done.dates = c.dates
       /\ done.listed = c.listed /\ done.periods = c.periods /\ done.saved = {}
       /\ done.todo = c.todo /\ done.period = 0
  <2>1. <<>> \in [Symbols -> RowSet] \cup {<<>>} /\ 0 \in Periods \cup {0}
    OBVIOUS
  <2>2. PICK r : r = <<>>
    OBVIOUS
  <2>3. r \in [Symbols -> RowSet] \cup {<<>>} /\ done = [c EXCEPT !.records = r, !.saved = {}, !.period = 0]
    BY <2>1, <2>2
  <2>4. done \in Calcs
    <3>1. PICK R : R = [Symbols -> RowSet] \cup {<<>>}
      OBVIOUS
    <3> QED
      BY <2>1, <2>3, <3>1 DEF Calcs
  <2>5. /\ done.pc = "save" /\ done.end = c.end /\ done.ends = c.ends
        /\ done.backfill = c.backfill /\ done.clean = c.clean /\ done.dates = c.dates
        /\ done.listed = c.listed /\ done.periods = c.periods /\ done.saved = {}
        /\ done.todo = c.todo /\ done.period = 0
    BY <1>1, <2>3 DEF Calcs
  <2> QED
    BY <2>4, <2>5
<1>12. CASE saved = Symbols /\ c.todo # {}
  <2>1. new = [done EXCEPT !.pc = "period"]
    BY <1>12 DEF SavedAll
  <2>2. PICK e \in Calcs : e = done
    BY <1>11
  <2>3. new \in Calcs
    BY <2>1, <2>2 DEF Calcs
  <2>4. /\ new.pc = "period" /\ new.end = c.end /\ new.ends = c.ends
        /\ new.backfill = c.backfill /\ new.clean = c.clean /\ new.dates = c.dates
        /\ new.saved = {} /\ new.todo = c.todo
    <3>1. /\ new.pc = "period" /\ new.end = e.end /\ new.ends = e.ends
          /\ new.backfill = e.backfill /\ new.clean = e.clean /\ new.dates = e.dates
          /\ new.saved = e.saved /\ new.todo = e.todo
      BY <2>1, <2>2 DEF Calcs
    <3> QED
      BY <1>11, <2>2, <3>1
  <2>5. CalcFits(new)
    BY <1>1, <1>3, <1>12, <2>4 DEF CalcFits
  <2>6. new.clean => c.clean /\ CleanCalcFits(new)'
    <3> SUFFICES ASSUME c.clean PROVE CleanCalcFits(new)'
      BY <2>4
    <3>1. ~c.backfill
      BY <1>9, <1>12
    <3> QED
      BY <1>1, <1>3, <1>4, <2>4, <3>1 DEF CleanCalcFits
  <2> QED
    BY <1>1, <1>2, <1>5, <2>3, <2>5, <2>6, OneCalcMoves
<1>13. CASE saved = Symbols /\ c.todo = {}
  <2>1. new = Finish(done)
    BY <1>13 DEF SavedAll
  <2>2. PICK e \in Calcs : e = done
    BY <1>11
  <2>3. /\ new \in Calcs
        /\ \/ new = Resting
           \/ /\ new.pc = "next" /\ new.backfill = e.backfill /\ new.clean = e.clean
              /\ new.dates = e.dates /\ new.listed = e.listed /\ new.periods = e.periods
              /\ new.saved = e.saved
    BY <2>1, <2>2, FinishIs
  <2>4. CASE new = Resting
    <3>1. new.clean => c.clean /\ CleanCalcFits(new)'
      BY <2>4, NoCalc
    <3> QED
      BY <1>1, <1>2, <1>5, <2>3, <2>4, <3>1, NoCalc, OneCalcMoves
  <2>5. CASE new # Resting
    <3>1. /\ new.pc = "next" /\ new.backfill = c.backfill /\ new.clean = c.clean
          /\ new.dates = c.dates /\ new.listed = c.listed /\ new.periods = c.periods
          /\ new.saved = {}
      BY <1>11, <2>2, <2>3, <2>5
    <3>2. CalcFits(new)
      BY <3>1 DEF CalcFits
    <3>3. c.clean /\ c.backfill => BackfillFits(new)'
      <4> SUFFICES ASSUME c.clean, c.backfill PROVE BackfillFits(new)'
        OBVIOUS
      <4>1. PICK p \in Periods :
        /\ c.periods = {p} /\ c.dates \subseteq c.listed /\ c.listed \subseteq TradingDays
        /\ \A d \in c.listed \ (c.dates \cup {c.end}) : Covered(d, p)'
        /\ c.period = p
        BY <1>9
      <4>2. ASSUME NEW s \in Symbols PROVE rows'[<<c.end, s, p>>] # Unwritten
        <5>1. rows'[<<c.end, s, p>>] = c.records[s] /\ RowIsPriced(c.records[s], c.end, s, p)
          BY <1>1, <1>8, <1>13, <4>1
        <5> QED
          BY <5>1, WrittenRow
      <4>3. Covered(c.end, p)'
        BY <4>2 DEF Covered
      <4>4. \A d \in c.listed \ c.dates : Covered(d, p)'
        BY <4>1, <4>3
      <4> QED
        BY <1>4, <3>1, <4>1, <4>4 DEF BackfillFits, AtDate
    <3>4. new.clean => c.clean /\ CleanCalcFits(new)'
      BY <3>1, <3>3 DEF CleanCalcFits
    <3> QED
      BY <1>1, <1>2, <1>5, <2>3, <3>2, <3>4, OneCalcMoves
  <2> QED
    BY <2>4, <2>5
<1> QED
  BY <1>10, <1>12, <1>13

LEMMA ReturnsKeep ==
  ReturnsInvariant /\ [CBNext]_cbVars => ReturnsInvariant'
<1> SUFFICES ASSUME ReturnsInvariant, [CBNext]_cbVars PROVE ReturnsInvariant'
  OBVIOUS
<1>1. ASSUME NEW s \in Symbols, NEW d \in TradeDays, NEW priced \in BOOLEAN,
             AddQuote(s, d, priced)
      PROVE  ReturnsInvariant'
  BY <1>1, QuoteIsAdded
<1>2. ASSUME NEW t \in Tasks, NEW d \in TradeDays \cup {None}, Execute(t, d)
      PROVE  ReturnsInvariant'
  BY <1>2, ExecuteFits
<1>3. ASSUME NEW t \in Tasks, NEW p \in Periods, BackfillPeriod(t, p) PROVE ReturnsInvariant'
  BY <1>3, BackfillFitsAtStart
<1>4. ASSUME NEW t \in Tasks, AlignEnd(t) PROVE ReturnsInvariant'
  BY <1>4, EndIsAligned
<1>5. ASSUME NEW t \in Tasks, AlignBases(t) PROVE ReturnsInvariant'
  BY <1>5, BasesAreAligned
<1>6. ASSUME NEW t \in Tasks, BuildPeriod(t) PROVE ReturnsInvariant'
  BY <1>6, PeriodIsBuilt
<1>7. ASSUME NEW t \in Tasks, NEW chunk \in SUBSET Symbols, SaveChunk(t, chunk)
      PROVE  ReturnsInvariant'
  BY <1>7, ChunkIsSaved
<1>8. ASSUME NEW t \in Tasks, EndBackfill(t) \/ FailCalc(t) PROVE ReturnsInvariant'
  BY <1>8, CalcEnds
<1>9. CASE UNCHANGED cbVars
  <2>1. UNCHANGED <<quoted, unpriced, rows, calc, started, arrived>>
    BY <1>9 DEF cbVars
  <2>2. \A t \in Tasks : CalcFits(calc[t])'
    <3> SUFFICES ASSUME NEW t \in Tasks PROVE CalcFits(calc[t])'
      OBVIOUS
    <3>1. PICK c : c = calc[t] /\ CalcFits(c)
      BY DEF ReturnsInvariant
    <3> QED
      BY <2>1, <3>1, CalcStaysFit, CalcFitsNext
  <2>3. \A t \in Tasks : calc'[t].clean => OnlyCalc(t)' /\ CleanCalcFits(calc[t])'
    <3> SUFFICES ASSUME NEW t \in Tasks, calc'[t].clean
                 PROVE  OnlyCalc(t)' /\ CleanCalcFits(calc[t])'
      OBVIOUS
    <3>1. PICK c : c = calc[t] /\ CleanCalcFits(c)
      BY <2>1 DEF ReturnsInvariant
    <3>2. OnlyCalc(t)'
      BY <2>1 DEF ReturnsInvariant, OnlyCalc
    <3> QED
      BY <2>1, <3>1, <3>2, CleanCalcStaysFit, CleanCalcFitsNext
  <2>4. ReturnsTyped'
    BY <2>1 DEF ReturnsInvariant, ReturnsTyped
  <2> QED
    BY <2>1, <2>2, <2>3, <2>4, StoredRowsStayFit DEF ReturnsInvariant
<1> QED
  BY <1>1, <1>2, <1>3, <1>4, <1>5, <1>6, <1>7, <1>8, <1>9 DEF CBNext

LEMMA ReturnsHold == CBSpec => []ReturnsInvariant
BY ReturnsStart, ReturnsKeep, PTL DEF CBSpec

\* The state of the calculations of annualised returns is always one the code can be in
\* (app/calculation/cagr.rs).
THEOREM ReturnsTypeCorrect == CBSpec => []CBTypeOK
<1>1. ReturnsInvariant => CBTypeOK
  <2> SUFFICES ASSUME ReturnsInvariant PROVE CBTypeOK
    OBVIOUS
  <2>1. ReturnsTyped
    BY DEF ReturnsInvariant
  <2>2. \A t \in Tasks :
        /\ calc[t].pc \in {"idle", "next", "prices", "period", "save"}
        /\ calc[t].end \in 0 .. LastTradeDay
        /\ calc[t].saved \subseteq Symbols
        /\ calc[t].dates \subseteq TradeDays
    BY <2>1 DEF ReturnsTyped, Calcs
  <2> QED
    BY <2>1, <2>2 DEF ReturnsTyped, CBTypeOK, RowSet
<1> QED
  BY <1>1, ReturnsHold, PTL

LEMMA CompleteRows == ReturnsInvariant => CompleteRowsHaveQuotes
<1> SUFFICES ASSUME ReturnsInvariant, NEW d \in TradeDays, NEW s \in Symbols, NEW p \in Periods,
                    NEW row, row = rows[<<d, s, p>>], row.complete
             PROVE  /\ {<<s, row.base>>, <<s, d>>} \subseteq quoted
                    /\ row.base < d /\ row.base <= d - p + Grace
  BY DEF CompleteRowsHaveQuotes
<1>1. ~Unwritten.complete
  BY DEF Unwritten
<1>2. row # Unwritten
  BY <1>1
<1>3. RowIsPriced(row, d, s, p)
  BY <1>2 DEF ReturnsInvariant, StoredRowsFit
<1> QED
  BY <1>3 DEF RowIsPriced

LEMMA NoGap == ReturnsInvariant => BackfillLeavesNoGap
<1> SUFFICES ASSUME ReturnsInvariant, NEW t \in Tasks,
                    calc[t].backfill, calc[t].clean, calc[t].pc = "next",
                    NEW d \in calc[t].listed \ calc[t].dates, NEW p \in calc[t].periods
             PROVE  \/ \A s \in Symbols : rows[<<d, s, p>>] # Unwritten
                    \/ \A e \in TradingDays : e > d - p
  BY DEF BackfillLeavesNoGap
<1>1. PICK c \in Calcs : c = calc[t]
  BY DEF ReturnsInvariant, ReturnsTyped
<1>2. BackfillFits(c)
  BY <1>1 DEF ReturnsInvariant, CleanCalcFits
<1>3. Covered(d, p)
  BY <1>1, <1>2 DEF BackfillFits, AtDate
<1> QED
  BY <1>3 DEF Covered

LEMMA SavedRowsAreCurrent == ReturnsInvariant => UndisturbedRowsAreCurrent
<1> SUFFICES ASSUME ReturnsInvariant, NEW t \in Tasks, calc[t].clean, NEW s \in calc[t].saved
             PROVE
      LET row == rows[<<calc[t].end, s, calc[t].period>>]
          before == {e \in TradingDays : e <= calc[t].end - calc[t].period}
          after == {e \in TradeDays : <<s, e>> \in quoted
                                      /\ Max(before) <= e /\ e <= Max(before) + Grace}
      IN /\ row.base = 0 <=> after = {}
         /\ after # {} => row.base \in after /\ \A e \in after : row.base <= e
  BY DEF UndisturbedRowsAreCurrent
<1> DEFINE row == rows[<<calc[t].end, s, calc[t].period>>]
           before == {e \in TradingDays : e <= calc[t].end - calc[t].period}
           after == {e \in TradeDays : <<s, e>> \in quoted
                                       /\ Max(before) <= e /\ e <= Max(before) + Grace}
<1> SUFFICES /\ row.base = 0 <=> after = {}
             /\ after # {} => row.base \in after /\ \A e \in after : row.base <= e
  OBVIOUS
<1>1. PICK c \in Calcs : c = calc[t]
  BY DEF ReturnsInvariant, ReturnsTyped
<1>2. /\ quoted \subseteq Symbols \X TradeDays /\ unpriced \subseteq TradeDays
      /\ CalcFits(c) /\ CleanCalcFits(c)
      /\ s \in Symbols /\ c.pc = "save"
  <2>1. /\ quoted \subseteq Symbols \X TradeDays /\ unpriced \subseteq TradeDays
        /\ CalcFits(c) /\ CleanCalcFits(c)
    BY <1>1 DEF ReturnsInvariant, ReturnsTyped
  <2>2. c.saved \in SUBSET Symbols
    BY DEF Calcs
  <2>3. c.pc = "save"
    BY <1>1, <2>1 DEF CalcFits
  <2> QED
    BY <1>1, <2>1, <2>2, <2>3
<1>3. /\ c.end - c.period \in Int /\ Align(c.end - c.period) # None
      /\ row.base = BaseDay(s, Align(c.end - c.period))
  <2>1. c.end \in Int /\ c.period \in Int
    BY CagrLimits DEF Calcs
  <2>2. /\ rows[<<c.end, s, c.period>>] = c.records[s]
        /\ c.records[s].base = BaseDay(s, Align(c.end - c.period))
        /\ Align(c.end - c.period) # None
    BY <1>1, <1>2 DEF CleanCalcFits
  <2> QED
    BY <1>1, <2>1, <2>2
<1>4. before = OnOrBefore(c.end - c.period)
  BY <1>1, <1>2, TradingDaysAre DEF OnOrBefore
<1>5. PICK a : a = Align(c.end - c.period)
  OBVIOUS
<1>6. Max(before) = a /\ a \in TradeDays /\ a \in Int
  <2>1. a \in TradeDays
    BY <1>2, <1>3, <1>5, AlignIs, TradingDaysAre
  <2>2. Max(before) = a
    BY <1>3, <1>4, <1>5 DEF Align
  <2> QED
    BY <2>1, <2>2, CagrLimits
<1>7. \A e : e \in after <=> e \in a .. a + Grace /\ <<s, e>> \in quoted
  <2>1. \A e : e \in after <=> e \in TradeDays /\ <<s, e>> \in quoted /\ a <= e /\ e <= a + Grace
    BY <1>6
  <2>2. \A e : <<s, e>> \in quoted => e \in TradeDays /\ e \in Int
    BY <1>2, CagrLimits
  <2>3. a + Grace \in Int
    BY <1>6, CagrLimits
  <2> QED
    BY <1>6, <2>1, <2>2, <2>3
<1>8. \/ row.base = None /\ \A e \in a .. a + Grace : <<s, e>> \notin quoted
      \/ /\ row.base \in a .. a + Grace /\ <<s, row.base>> \in quoted /\ row.base \in TradeDays
         /\ \A e \in a .. a + Grace : <<s, e>> \in quoted => row.base <= e
  BY <1>2, <1>3, <1>5, <1>6, BaseDayIs
<1>9. CASE row.base = None /\ \A e \in a .. a + Grace : <<s, e>> \notin quoted
  BY <1>7, <1>9 DEF None
<1>10. CASE /\ row.base \in a .. a + Grace /\ <<s, row.base>> \in quoted /\ row.base \in TradeDays
            /\ \A e \in a .. a + Grace : <<s, e>> \in quoted => row.base <= e
  <2>1. row.base # 0
    BY <1>10, CagrLimits
  <2>2. row.base \in after
    BY <1>7, <1>10
  <2> QED
    BY <1>7, <1>10, <2>1, <2>2
<1> QED
  BY <1>8, <1>9, <1>10

\* A row that counts as complete rests on two quotes whatever raced, and an undisturbed
\* calculation or backfill has written every row there can be, each from the quotes as they
\* are (backfill_period_with, calculate_periods, save_batch).
THEOREM BackfillsComplete == CBSpec => []BackfillIsComplete
<1>1. ReturnsInvariant => BackfillIsComplete
  BY CompleteRows, NoGap, SavedRowsAreCurrent DEF BackfillIsComplete, RowsFollowQuotes
<1> QED
  BY <1>1, ReturnsHold, PTL

-----------------------------------------------------------------------------
(* The simulator, for any finite sets of events and splits, any prices and *)
(* any number of shares fine enough.                                       *)

\* What is divided without a remainder.
LEMMA ExactQuotient ==
  ASSUME NEW m \in Nat, NEW n \in Nat \ {0}
  PROVE  (m * n) \div n = m /\ (m * n) % n = 0
<1>1. PICK q, r : q = (m * n) \div n /\ r = (m * n) % n
  OBVIOUS
<1>2. q \in Int /\ r \in 0 .. n - 1 /\ m * n = n * q + r
  BY <1>1
<1>3. CASE q > m
  <2>1. PICK d \in Nat : q = m + d + 1
    <3>1. q - m - 1 \in Nat /\ q = m + (q - m - 1) + 1
      BY <1>2, <1>3
    <3> QED
      BY <3>1
  <2>2. n * q = n * m + n * d + n
    BY <2>1
  <2> QED
    BY <1>2, <2>1, <2>2
<1>4. CASE q < m
  <2>1. PICK d \in Nat : m = q + d + 1
    <3>1. m - q - 1 \in Nat /\ m = q + (m - q - 1) + 1
      BY <1>2, <1>4
    <3> QED
      BY <3>1
  <2>2. m * n = n * q + n * d + n
    BY <1>2, <2>1
  <2>3. n * d \in Nat
    BY <2>1
  <2> QED
    BY <1>2, <2>1, <2>2, <2>3
<1>5. CASE q = m
  BY <1>1, <1>2, <1>5
<1> QED
  BY <1>2, <1>3, <1>4, <1>5

LEMMA ExactDivision ==
  ASSUME NEW m \in Nat, NEW n \in Nat \ {0}, m % n = 0
  PROVE  \E k \in Nat : m = k * n /\ m \div n = k
<1>1. PICK q : q = m \div n
  OBVIOUS
<1>2. q \in Int /\ m = n * q
  BY <1>1
<1>3. q >= 0
  <2> SUFFICES ASSUME q < 0 PROVE FALSE
    BY <1>2
  <2>1. PICK d \in Nat : q = -d - 1
    <3>1. -q - 1 \in Nat /\ q = -(-q - 1) - 1
      BY <1>2
    <3> QED
      BY <3>1
  <2>2. n * q = -(n * d) - n /\ n * d \in Nat
    BY <2>1
  <2> QED
    BY <1>2, <2>2
<1>4. q \in Nat /\ m = q * n
  BY <1>2, <1>3
<1> QED
  BY <1>1, <1>4

\* A holding stays fine: after one more change it is a multiple of the next grain, and a
\* rate divides it exactly.
IsFine(x, n) == x \in Nat /\ x % Grain[n] = 0

LEMMA FineHoldings ==
  ASSUME NEW n \in 1 .. 2 * MaxEvents, NEW x, IsFine(x, n - 1)
  PROVE  /\ IsFine(x, n)
         /\ \A num, den \in Nat : (den > 0 /\ <<num, den>> \in Rates) =>
                /\ IsFine((x * num) \div den, n)
                /\ ((x * num) \div den) * den = x * num
<1> DEFINE g == Grain[n - 1]  h == Grain[n]
<1>1. g \in Nat \ {0} /\ h \in Nat \ {0} /\ g % h = 0 /\ x \in Nat /\ x % g = 0
  <2>1. MaxEvents \in Nat
    BY SimulatorAssumption
  <2>2. n - 1 \in 0 .. 2 * MaxEvents /\ n \in 0 .. 2 * MaxEvents
    BY <2>1
  <2> QED
    BY <2>2, GrainAssumption DEF IsFine
<1>2. \A r \in Rates : (g * r[1]) % (h * r[2]) = 0
  BY GrainAssumption
<1> HIDE DEF g, h
<1>3. PICK k \in Nat : x = k * g
  BY <1>1, ExactDivision
<1>4. x % h = 0
  <2>1. PICK m \in Nat : g = m * h
    BY <1>1, ExactDivision
  <2>2. PICK km \in Nat : km = k * m
    OBVIOUS
  <2>3. x = km * h
    BY <1>1, <1>3, <2>1, <2>2
  <2> QED
    BY <1>1, <2>3, ExactQuotient
<1>5. ASSUME NEW num \in Nat, NEW den \in Nat, den > 0, <<num, den>> \in Rates
      PROVE  /\ IsFine((x * num) \div den, n)
             /\ ((x * num) \div den) * den = x * num
  <2>1. (g * num) % (h * den) = 0 /\ g * num \in Nat /\ h * den \in Nat \ {0}
    BY <1>1, <1>2, <1>5
  <2>2. PICK m \in Nat : g * num = m * (h * den)
    BY <2>1, ExactDivision
  <2>3. PICK y \in Nat : y = k * m * h
    BY <1>1
  <2>4. x * num = y * den
    <3>1. x * num = k * (g * num)
      BY <1>1, <1>3
    <3>2. k * (m * (h * den)) = k * m * h * den
      BY <1>1
    <3> QED
      BY <2>2, <2>3, <3>1, <3>2
  <2>5. (x * num) \div den = y
    BY <1>5, <2>4, ExactQuotient
  <2>6. y % h = 0
    <3>1. PICK z \in Nat : z = k * m
      OBVIOUS
    <3>2. y = z * h
      BY <2>3, <3>1
    <3> QED
      BY <1>1, <3>2, ExactQuotient
  <2> QED
    BY <2>4, <2>5, <2>6 DEF IsFine, h
<1> QED
  BY <1>1, <1>4, <1>5 DEF IsFine, h

\* A sum of fine holdings is fine.
LEMMA FineSum ==
  ASSUME NEW n \in 0 .. 2 * MaxEvents, NEW x, NEW y, IsFine(x, n), IsFine(y, n)
  PROVE  IsFine(x + y, n)
<1>1. Grain[n] \in Nat \ {0}
  BY GrainAssumption
<1>2. PICK h : h = Grain[n]
  OBVIOUS
<1>3. PICK k \in Nat, m \in Nat : x = k * h /\ y = m * h
  BY <1>1, <1>2, ExactDivision DEF IsFine
<1>4. PICK z \in Nat : z = k + m
  OBVIOUS
<1>5. x + y = z * h
  BY <1>1, <1>2, <1>3, <1>4
<1> QED
  BY <1>1, <1>2, <1>4, <1>5, ExactQuotient DEF IsFine

-----------------------------------------------------------------------------
(* The actions of the simulator.                                           *)

LEMMA ActionsAreDistinct ==
  /\ \A e, f : CashOf(e) = CashOf(f) => e = f
  /\ \A e, f : StockOf(e) = StockOf(f) => e = f
  /\ \A s, t : SplitOf(s) = SplitOf(t) => s = t
  /\ \A e, f : CashOf(e) # StockOf(f)
  /\ \A e, s : CashOf(e) # SplitOf(s)
  /\ \A e, s : StockOf(e) # SplitOf(s)
<1>1. \A e : CashOf(e).of = e /\ StockOf(e).of = e /\ SplitOf(e).of = e
  BY DEF CashOf, StockOf, SplitOf
<1>2. \A e : CashOf(e).kind = "cash" /\ StockOf(e).kind = "stock" /\ SplitOf(e).kind = "split"
  BY DEF CashOf, StockOf, SplitOf
<1>3. ASSUME NEW e, NEW f
      PROVE  /\ CashOf(e) = CashOf(f) => e = f
             /\ StockOf(e) = StockOf(f) => e = f
             /\ SplitOf(e) = SplitOf(f) => e = f
  BY <1>1
<1>4. ASSUME NEW e, NEW f
      PROVE  CashOf(e) # StockOf(f) /\ CashOf(e) # SplitOf(f) /\ StockOf(e) # SplitOf(f)
  BY <1>2
<1> QED
  BY <1>3, <1>4

\* The kind of an action, and what it stands for.
LEMMA ActionKinds ==
  ASSUME NEW es, NEW ss, NEW a \in ActionsOf(es, ss)
  PROVE  /\ a.kind = "cash" => \E e \in es : a = CashOf(e) /\ e.cash > 0 /\ InPeriod(e.cashDay)
         /\ a.kind = "stock" => \E e \in es : a = StockOf(e) /\ e.stock > 0 /\ InPeriod(e.stockDay)
         /\ a.kind = "split" => \E s \in ss : a = SplitOf(s) /\ s.num > 0 /\ InPeriod(s.day)
         /\ a.kind \in {"cash", "stock", "split"}
<1>1. \A e : CashOf(e).kind = "cash" /\ StockOf(e).kind = "stock" /\ SplitOf(e).kind = "split"
  BY DEF CashOf, StockOf, SplitOf
<1> QED
  BY <1>1 DEF ActionsOf

\* An event has its action when it pays within the period.
LEMMA ActionsOfEvents ==
  ASSUME NEW es, NEW ss
  PROVE  /\ \A e \in es : CashOf(e) \in ActionsOf(es, ss) <=> e.cash > 0 /\ InPeriod(e.cashDay)
         /\ \A e \in es : StockOf(e) \in ActionsOf(es, ss) <=> e.stock > 0 /\ InPeriod(e.stockDay)
         /\ \A s \in ss : SplitOf(s) \in ActionsOf(es, ss) <=> s.num > 0 /\ InPeriod(s.day)
<1>1. \A e : CashOf(e).kind = "cash" /\ StockOf(e).kind = "stock" /\ SplitOf(e).kind = "split"
  BY DEF CashOf, StockOf, SplitOf
<1>2. ASSUME NEW e \in es PROVE CashOf(e) \in ActionsOf(es, ss) <=> e.cash > 0 /\ InPeriod(e.cashDay)
  <2>1. CashOf(e) \in ActionsOf(es, ss) => e.cash > 0 /\ InPeriod(e.cashDay)
    BY <1>1, ActionKinds, ActionsAreDistinct
  <2>2. e.cash > 0 /\ InPeriod(e.cashDay) => CashOf(e) \in ActionsOf(es, ss)
    BY DEF ActionsOf
  <2> QED
    BY <2>1, <2>2
<1>3. ASSUME NEW e \in es PROVE StockOf(e) \in ActionsOf(es, ss) <=> e.stock > 0 /\ InPeriod(e.stockDay)
  <2>1. StockOf(e) \in ActionsOf(es, ss) => e.stock > 0 /\ InPeriod(e.stockDay)
    BY <1>1, ActionKinds, ActionsAreDistinct
  <2>2. e.stock > 0 /\ InPeriod(e.stockDay) => StockOf(e) \in ActionsOf(es, ss)
    BY DEF ActionsOf
  <2> QED
    BY <2>1, <2>2
<1>4. ASSUME NEW s \in ss PROVE SplitOf(s) \in ActionsOf(es, ss) <=> s.num > 0 /\ InPeriod(s.day)
  <2>1. SplitOf(s) \in ActionsOf(es, ss) => s.num > 0 /\ InPeriod(s.day)
    BY <1>1, ActionKinds, ActionsAreDistinct
  <2>2. s.num > 0 /\ InPeriod(s.day) => SplitOf(s) \in ActionsOf(es, ss)
    BY DEF ActionsOf
  <2> QED
    BY <2>1, <2>2
<1> QED
  BY <1>2, <1>3, <1>4

\* A set whose members stem from those of a finite set is no larger.
LEMMA StemsFrom ==
  ASSUME NEW S, IsFiniteSet(S), NEW T, NEW f, f = [x \in S |-> f[x]],
         \A y \in T : \E x \in S : f[x] = y
  PROVE  IsFiniteSet(T) /\ Cardinality(T) <= Cardinality(S)
<1> DEFINE R == {x \in S : f[x] \in T}
           g == [x \in R |-> f[x]]
<1>1. g \in Surjection(R, T)
  BY DEF Surjection
<1>2. IsFiniteSet(R) /\ Cardinality(R) <= Cardinality(S)
  <2>1. R \in SUBSET S
    OBVIOUS
  <2> HIDE DEF R
  <2> QED
    BY <2>1, FS_Subset
<1> HIDE DEF g, R
<1>3. IsFiniteSet(T) /\ Cardinality(T) <= Cardinality(R)
  BY <1>1, <1>2, FS_Surjection
<1>4. Cardinality(T) \in Nat /\ Cardinality(R) \in Nat /\ Cardinality(S) \in Nat
  BY <1>2, <1>3, FS_CardinalityType
<1> QED
  BY <1>2, <1>3, <1>4

\* At most two actions per event.
LEMMA FewActions ==
  ASSUME NEW es, NEW ss, IsFiniteSet(es), IsFiniteSet(ss),
         Cardinality(es) + Cardinality(ss) <= MaxEvents
  PROVE  IsFiniteSet(ActionsOf(es, ss)) /\ Cardinality(ActionsOf(es, ss)) <= 2 * MaxEvents
<1> DEFINE A == {CashOf(e) : e \in {e \in es : e.cash > 0 /\ InPeriod(e.cashDay)}}
           B == {StockOf(e) : e \in {e \in es : e.stock > 0 /\ InPeriod(e.stockDay)}}
           C == {SplitOf(s) : s \in {s \in ss : s.num > 0 /\ InPeriod(s.day)}}
<1>1. PICK f : f = [e \in es |-> CashOf(e)]
  OBVIOUS
<1>2. PICK g : g = [e \in es |-> StockOf(e)]
  OBVIOUS
<1>3. PICK h : h = [s \in ss |-> SplitOf(s)]
  OBVIOUS
<1>4. /\ \A y \in A : \E x \in es : f[x] = y
      /\ \A y \in B : \E x \in es : g[x] = y
      /\ \A y \in C : \E x \in ss : h[x] = y
  BY <1>1, <1>2, <1>3
<1>5. f = [x \in es |-> f[x]] /\ g = [x \in es |-> g[x]] /\ h = [x \in ss |-> h[x]]
  BY <1>1, <1>2, <1>3
<1>6. ActionsOf(es, ss) = (A \cup B) \cup C
  BY DEF ActionsOf
<1> HIDE DEF A, B, C
<1>7. /\ IsFiniteSet(A) /\ Cardinality(A) <= Cardinality(es)
      /\ IsFiniteSet(B) /\ Cardinality(B) <= Cardinality(es)
      /\ IsFiniteSet(C) /\ Cardinality(C) <= Cardinality(ss)
  BY <1>4, <1>5, StemsFrom
<1>8. /\ IsFiniteSet(A \cup B) /\ Cardinality(A \cup B) <= Cardinality(A) + Cardinality(B)
      /\ Cardinality(A) \in Nat /\ Cardinality(B) \in Nat /\ Cardinality(C) \in Nat
  <2>1. IsFiniteSet(A \cap B)
    BY <1>7, FS_Intersection
  <2>2. Cardinality(A \cap B) \in Nat /\ Cardinality(A) \in Nat /\ Cardinality(B) \in Nat
          /\ Cardinality(C) \in Nat
    BY <1>7, <2>1, FS_CardinalityType
  <2>3. IsFiniteSet(A \cup B)
          /\ Cardinality(A \cup B) = Cardinality(A) + Cardinality(B) - Cardinality(A \cap B)
    BY <1>7, FS_Union
  <2>4. Cardinality(A \cup B) \in Nat
    BY <2>3, FS_CardinalityType
  <2> QED
    BY <2>2, <2>3, <2>4
<1>9. PICK D : D = A \cup B
  OBVIOUS
<1>10. IsFiniteSet(D \cup C) /\ Cardinality(D \cup C) <= Cardinality(D) + Cardinality(C)
        /\ Cardinality(D) \in Nat /\ Cardinality(D \cup C) \in Nat
  <2>1. IsFiniteSet(D) /\ IsFiniteSet(D \cap C)
    BY <1>7, <1>8, <1>9, FS_Intersection
  <2>2. Cardinality(D \cap C) \in Nat /\ Cardinality(D) \in Nat
    BY <2>1, FS_CardinalityType
  <2>3. IsFiniteSet(D \cup C) /\ Cardinality(D \cup C) = Cardinality(D) + Cardinality(C) - Cardinality(D \cap C)
    BY <1>7, <2>1, FS_Union
  <2>4. Cardinality(D \cup C) \in Nat
    BY <2>3, FS_CardinalityType
  <2> QED
    BY <1>8, <2>2, <2>3, <2>4
<1>11. Cardinality(es) \in Nat /\ Cardinality(ss) \in Nat /\ MaxEvents \in Nat
  BY FS_CardinalityType, SimulatorAssumption
<1>12. Cardinality(D \cup C) <= 2 * MaxEvents
  <2>1. PICK k, l, m, p, q, r : /\ k = Cardinality(A) /\ l = Cardinality(B) /\ m = Cardinality(C)
                                /\ p = Cardinality(es) /\ q = Cardinality(ss) /\ r = Cardinality(D)
    OBVIOUS
  <2>2. k <= p /\ l <= p /\ m <= q /\ r <= k + l /\ Cardinality(D \cup C) <= r + m /\ p + q <= MaxEvents
    BY <1>7, <1>8, <1>9, <1>10, <2>1
  <2>3. k \in Nat /\ l \in Nat /\ m \in Nat /\ p \in Nat /\ q \in Nat /\ r \in Nat
          /\ Cardinality(D \cup C) \in Nat
    BY <1>8, <1>10, <1>11, <2>1
  <2> QED
    BY <1>11, <2>2, <2>3
<1> QED
  BY <1>6, <1>9, <1>10, <1>12

-----------------------------------------------------------------------------
(* What a holding grows by.                                                *)

LEMMA ProductIsFold ==
  ASSUME NEW f
  PROVE  Product(f) = Folded("product", f, DOMAIN f)
<1> DEFINE S == DOMAIN f
           R(g) == g = [s \in SUBSET S |->
                           IF s = {} THEN 1 ELSE f[Picked(s)] * g[s \ {Picked(s)}]]
<1>1. FoldFunction(Times, 1, f) = (CHOOSE g : R(g))[S]
  BY Zenon DEF FoldFunction, FoldFunctionOnSet, MapThenFoldSet, Picked, Times
<1>2. ASSUME NEW g PROVE R(g) <=> Recursion("product", g, f, S)
  BY DEF Recursion, Combine, Neutral
<1> HIDE DEF R
<1>3. (CHOOSE g : R(g)) = (CHOOSE g : Recursion("product", g, f, S))
  BY <1>2
<1> QED
  BY <1>1, <1>3 DEF TheFold, Folded, Product

\* One more factor.
Extends(g, f, S, y) ==
    /\ IsFiniteSet(S) /\ y \notin S
    /\ DOMAIN f = S /\ DOMAIN g = S \cup {y}
    /\ \A x \in S : f[x] = g[x]
    /\ \A x \in S \cup {y} : g[x] \in Int

LEMMA ProductGrows ==
  ASSUME NEW S, NEW y, NEW f, NEW g, Extends(g, f, S, y)
  PROVE  Product(g) = g[y] * Product(f)
<1> USE DEF Extends
<1>1. IsFiniteSet(S \cup {y})
  BY FS_AddElement
<1>2. Folded("product", g, S \cup {y}) = g[y] * Folded("product", g, (S \cup {y}) \ {y})
  <2>1. PICK T : T = S \cup {y}
    OBVIOUS
  <2>2. y \in T /\ IsFiniteSet(T) /\ \A x \in T : g[x] \in Int
    BY <1>1, <2>1
  <2>3. Folded("product", g, T) = Combine("product", g[y], Folded("product", g, T \ {y}))
    BY <2>2, FoldTakesOut
  <2> QED
    BY <2>1, <2>3 DEF Combine
<1>3. (S \cup {y}) \ {y} = S
  OBVIOUS
<1>4. Folded("product", g, S) = Folded("product", f, S)
  BY FoldsAgree
<1>5. Product(g) = Folded("product", g, S \cup {y}) /\ Product(f) = Folded("product", f, S)
  BY ProductIsFold
<1> QED
  BY <1>2, <1>3, <1>4, <1>5

LEMMA ProductIsNatural ==
  ASSUME NEW f, NEW S, IsFiniteSet(S), DOMAIN f = S, \A x \in S : f[x] \in Nat \ {0}
  PROVE  Product(f) \in Nat \ {0}
<1> QED
  BY ProductIsFold, ProductIsPositive

LEMMA ProductOfNone ==
  ASSUME NEW f, DOMAIN f = {}
  PROVE  Product(f) = 1
BY ProductIsFold, FoldOfNone DEF Neutral

\* The stock dividends and the splits that have an effect.
Stocked(S) == IsFiniteSet(S) /\ S \subseteq Events
Converted(T) == IsFiniteSet(T) /\ T \subseteq Splits /\ \A s \in T : s.num > 0

LEMMA GrowthIsPositive ==
  ASSUME NEW S, NEW T, Stocked(S), Converted(T)
  PROVE  Growth(S, T).num \in Nat \ {0} /\ Growth(S, T).den \in Nat \ {0}
<1>1. PICK f, g, h, k : /\ f = [e \in S |-> Par + e.stock] /\ g = [s \in T |-> s.num]
                        /\ h = [e \in S |-> Par] /\ k = [s \in T |-> s.den]
  OBVIOUS
<1>2. /\ \A x \in S : f[x] \in Nat \ {0} /\ h[x] \in Nat \ {0}
      /\ \A x \in T : g[x] \in Nat \ {0} /\ k[x] \in Nat \ {0}
  <2>1. \A x \in S : x.stock \in Nat
    BY SimulatorAssumption DEF Stocked
  <2>2. \A x \in T : x.num \in Nat /\ x.den \in Nat \ {0} /\ x.num > 0
    BY SimulatorAssumption DEF Converted
  <2>3. Par \in Nat \ {0}
    BY SimulatorAssumption
  <2> QED
    BY <1>1, <2>1, <2>2, <2>3
<1>3. DOMAIN f = S /\ DOMAIN g = T /\ DOMAIN h = S /\ DOMAIN k = T
  BY <1>1
<1>4. IsFiniteSet(S) /\ IsFiniteSet(T)
  BY DEF Stocked, Converted
<1>5. PICK a, b, c, d : a = Product(f) /\ b = Product(g) /\ c = Product(h) /\ d = Product(k)
  OBVIOUS
<1>6. a \in Nat \ {0} /\ b \in Nat \ {0} /\ c \in Nat \ {0} /\ d \in Nat \ {0}
  BY <1>2, <1>3, <1>4, <1>5, ProductIsNatural
<1>7. Growth(S, T) = [num |-> a * b, den |-> c * d]
  BY <1>1, <1>5 DEF Growth
<1>8. a * b \in Nat \ {0} /\ c * d \in Nat \ {0}
  BY <1>6
<1> QED
  BY <1>7, <1>8

\* One more stock dividend, one more split.
LEMMA GrowthByStock ==
  ASSUME NEW S, NEW T, Stocked(S), Converted(T), NEW e \in Events, e \notin S
  PROVE  /\ Growth(S \cup {e}, T).num = (Par + e.stock) * Growth(S, T).num
         /\ Growth(S \cup {e}, T).den = Par * Growth(S, T).den
<1>1. PICK f, g, h, k : /\ f = [x \in S |-> Par + x.stock] /\ g = [s \in T |-> s.num]
                        /\ h = [x \in S |-> Par] /\ k = [s \in T |-> s.den]
  OBVIOUS
<1>2. PICK p, q : p = [x \in S \cup {e} |-> Par + x.stock] /\ q = [x \in S \cup {e} |-> Par]
  OBVIOUS
<1>3. /\ Par \in Nat \ {0} /\ IsFiniteSet(S) /\ IsFiniteSet(T)
      /\ \A x \in S \cup {e} : x.stock \in Nat
      /\ \A x \in T : x.num \in Nat \ {0} /\ x.den \in Nat \ {0}
  BY SimulatorAssumption DEF Stocked, Converted
<1>4. /\ \A x \in S : f[x] = p[x] /\ h[x] = q[x]
      /\ \A x \in S \cup {e} : p[x] \in Int /\ q[x] \in Int
      /\ DOMAIN f = S /\ DOMAIN h = S /\ DOMAIN p = S \cup {e} /\ DOMAIN q = S \cup {e}
      /\ p[e] = Par + e.stock /\ q[e] = Par
  BY <1>1, <1>2, <1>3
<1>5. Product(p) = (Par + e.stock) * Product(f) /\ Product(q) = Par * Product(h)
  <2>1. Extends(p, f, S, e) /\ Extends(q, h, S, e)
    BY <1>3, <1>4 DEF Extends
  <2>2. Product(p) = p[e] * Product(f)
    BY <2>1, ProductGrows
  <2>3. Product(q) = q[e] * Product(h)
    BY <2>1, ProductGrows
  <2> QED
    BY <1>4, <2>2, <2>3
<1>6. /\ \A x \in S : f[x] \in Nat \ {0} /\ h[x] \in Nat \ {0}
      /\ \A x \in T : g[x] \in Nat \ {0} /\ k[x] \in Nat \ {0}
      /\ DOMAIN g = T /\ DOMAIN k = T
  BY <1>1, <1>3
<1>7. PICK a, b, c, d, r : /\ a = Product(f) /\ b = Product(g) /\ c = Product(h) /\ d = Product(k)
                           /\ r = Par + e.stock
  OBVIOUS
<1>8. a \in Nat \ {0} /\ b \in Nat \ {0} /\ c \in Nat \ {0} /\ d \in Nat \ {0} /\ r \in Nat
  BY <1>3, <1>4, <1>6, <1>7, ProductIsNatural
<1>9. /\ Growth(S, T) = [num |-> a * b, den |-> c * d]
      /\ Growth(S \cup {e}, T) = [num |-> (r * a) * b, den |-> (Par * c) * d]
  BY <1>1, <1>2, <1>5, <1>7 DEF Growth
<1>10. (r * a) * b = r * (a * b) /\ (Par * c) * d = Par * (c * d)
  BY <1>3, <1>8
<1> QED
  BY <1>7, <1>9, <1>10

LEMMA GrowthBySplit ==
  ASSUME NEW S, NEW T, Stocked(S), Converted(T), NEW s \in Splits, s \notin T, s.num > 0
  PROVE  /\ Growth(S, T \cup {s}).num = s.num * Growth(S, T).num
         /\ Growth(S, T \cup {s}).den = s.den * Growth(S, T).den
<1>1. PICK f, g, h, k : /\ f = [x \in S |-> Par + x.stock] /\ g = [x \in T |-> x.num]
                        /\ h = [x \in S |-> Par] /\ k = [x \in T |-> x.den]
  OBVIOUS
<1>2. PICK p, q : p = [x \in T \cup {s} |-> x.num] /\ q = [x \in T \cup {s} |-> x.den]
  OBVIOUS
<1>3. /\ Par \in Nat \ {0} /\ IsFiniteSet(S) /\ IsFiniteSet(T)
      /\ \A x \in S : x.stock \in Nat
      /\ \A x \in T \cup {s} : x.num \in Nat \ {0} /\ x.den \in Nat \ {0}
  BY SimulatorAssumption DEF Stocked, Converted
<1>4. /\ \A x \in T : g[x] = p[x] /\ k[x] = q[x]
      /\ \A x \in T \cup {s} : p[x] \in Int /\ q[x] \in Int
      /\ DOMAIN g = T /\ DOMAIN k = T /\ DOMAIN p = T \cup {s} /\ DOMAIN q = T \cup {s}
      /\ p[s] = s.num /\ q[s] = s.den
  BY <1>1, <1>2, <1>3
<1>5. Product(p) = s.num * Product(g) /\ Product(q) = s.den * Product(k)
  <2>1. Extends(p, g, T, s) /\ Extends(q, k, T, s)
    BY <1>3, <1>4 DEF Extends
  <2>2. Product(p) = p[s] * Product(g)
    BY <2>1, ProductGrows
  <2>3. Product(q) = q[s] * Product(k)
    BY <2>1, ProductGrows
  <2> QED
    BY <1>4, <2>2, <2>3
<1>6. /\ \A x \in S : f[x] \in Nat \ {0} /\ h[x] \in Nat \ {0}
      /\ \A x \in T : g[x] \in Nat \ {0} /\ k[x] \in Nat \ {0}
      /\ DOMAIN f = S /\ DOMAIN h = S
  BY <1>1, <1>3
<1>7. PICK a, b, c, d, r, t : /\ a = Product(f) /\ b = Product(g) /\ c = Product(h) /\ d = Product(k)
                              /\ r = s.num /\ t = s.den
  OBVIOUS
<1>8. a \in Nat \ {0} /\ b \in Nat \ {0} /\ c \in Nat \ {0} /\ d \in Nat \ {0} /\ r \in Nat /\ t \in Nat
  BY <1>3, <1>4, <1>6, <1>7, ProductIsNatural
<1>9. /\ Growth(S, T) = [num |-> a * b, den |-> c * d]
      /\ Growth(S, T \cup {s}) = [num |-> a * (r * b), den |-> c * (t * d)]
  BY <1>1, <1>2, <1>5, <1>7 DEF Growth
<1>10. a * (r * b) = r * (a * b) /\ c * (t * d) = t * (c * d)
  BY <1>3, <1>8
<1> QED
  BY <1>7, <1>9, <1>10

-----------------------------------------------------------------------------
(* The simulation.                                                         *)

\* What has been applied.
Done == ActionsOf(events, splits) \ actions
CashDone == {e \in events : CashOf(e) \in Done}
StockDone == {e \in events : StockOf(e) \in Done}
SplitDone == {s \in splits : SplitOf(s) \in Done}

InputsFit ==
    /\ events \subseteq Events /\ splits \subseteq Splits
    /\ Cardinality(events) + Cardinality(splits) <= MaxEvents
    /\ price \in [Window -> Prices] /\ price[End] > 0
    /\ actions \subseteq ActionsOf(events, splits)

HoldingsFit ==
    /\ IsFine(totalShares, Cardinality(Done)) /\ totalShares > 0
    /\ IsFine(reinvestedShares, Cardinality(Done)) /\ reinvestedShares > 0
    /\ priceShares \in Nat /\ totalCash \in Nat /\ reinvestedCash \in Nat

\* What has been applied comes before what has not.
AppliedInOrder == \A a \in Done, b \in actions : ComesBefore(a, b)

\* The shares so far, and the cash so far.
SharesGrew ==
    totalShares * Growth(StockDone, SplitDone).den = BaseShares * Growth(StockDone, SplitDone).num

CashAdded == totalCash = SumFunctionOnSet([e \in CashDone |-> PaidOn(e)], CashDone)

\* How the measures compare when no shares are given or converted.
NoShares == splits = {} /\ \A e \in events : e.stock = 0
Held == totalShares * price[End] + totalCash
Reinvested == reinvestedShares * price[End] + reinvestedCash
MeasuresCompare ==
    /\ (\A e \in CashDone : price[e.cashDay] = 0) =>
            reinvestedShares = totalShares /\ reinvestedCash = totalCash
    /\ (\A e \in CashDone : price[e.cashDay] \in 0 .. price[End]) =>
            reinvestedShares >= totalShares /\ Reinvested >= Held
    /\ /\ \A e \in CashDone : price[e.cashDay] = 0 \/ price[e.cashDay] >= price[End]
       /\ \A e, f \in CashDone : e = f
       => Reinvested <= Held

SplitsKeepMeasures ==
    /\ priceShares = totalShares /\ totalShares = reinvestedShares
    /\ totalCash = 0 /\ reinvestedCash = 0

SimulationInvariant ==
    /\ InputsFit
    /\ HoldingsFit
    /\ AppliedInOrder
    /\ SharesGrew
    /\ CashAdded
    /\ NoShares => MeasuresCompare
    /\ events = {} => SplitsKeepMeasures

\* The input is finite, and so is what is applied.
LEMMA InputsAreFinite ==
  ASSUME InputsFit
  PROVE  /\ IsFiniteSet(events) /\ IsFiniteSet(splits)
         /\ IsFiniteSet(Done) /\ Cardinality(Done) \in 0 .. 2 * MaxEvents
         /\ IsFiniteSet(CashDone) /\ Stocked(StockDone) /\ Converted(SplitDone)
         /\ \A e \in events : /\ e.cash \in Nat /\ e.stock \in Nat
                              /\ e.cashDay \in Nat /\ e.stockDay \in Nat
         /\ \A s \in splits : s.num \in Nat /\ s.den \in Nat \ {0} /\ s.day \in Nat
<1>1. IsFiniteSet(events) /\ IsFiniteSet(splits)
  BY SimulatorAssumption, FS_Subset DEF InputsFit
<1>2. IsFiniteSet(ActionsOf(events, splits)) /\ Cardinality(ActionsOf(events, splits)) <= 2 * MaxEvents
  BY <1>1, FewActions DEF InputsFit
<1>3. Done \in SUBSET ActionsOf(events, splits)
  BY DEF Done
<1>4. IsFiniteSet(Done) /\ Cardinality(Done) \in 0 .. 2 * MaxEvents
  <2>1. PICK A : A = ActionsOf(events, splits)
    OBVIOUS
  <2>2. IsFiniteSet(Done) /\ Cardinality(Done) <= Cardinality(A)
    BY <1>2, <1>3, <2>1, FS_Subset
  <2>3. Cardinality(Done) \in Nat /\ Cardinality(A) \in Nat /\ MaxEvents \in Nat
    BY <1>2, <2>1, <2>2, FS_CardinalityType, SimulatorAssumption
  <2> QED
    BY <1>2, <2>1, <2>2, <2>3
<1>5. CashDone \in SUBSET events /\ StockDone \in SUBSET events /\ SplitDone \in SUBSET splits
  BY DEF CashDone, StockDone, SplitDone
<1>6. IsFiniteSet(CashDone) /\ IsFiniteSet(StockDone) /\ IsFiniteSet(SplitDone)
  BY <1>1, <1>5, FS_Subset
<1>7. \A s \in SplitDone : s.num > 0
  BY ActionsOfEvents DEF SplitDone, Done
<1>8. Stocked(StockDone) /\ Converted(SplitDone)
  BY <1>5, <1>6, <1>7 DEF Stocked, Converted, InputsFit
<1>9. /\ \A e \in events : /\ e.cash \in Nat /\ e.stock \in Nat
                           /\ e.cashDay \in Nat /\ e.stockDay \in Nat
      /\ \A s \in splits : s.num \in Nat /\ s.den \in Nat \ {0} /\ s.day \in Nat
  BY SimulatorAssumption DEF InputsFit
<1> QED
  BY <1>1, <1>4, <1>6, <1>8, <1>9

\* The shares held on a day are a number.
LEMMA HeldIsNatural ==
  ASSUME InputsFit, NEW d
  PROVE  /\ HeldBefore(d) \in Nat
         /\ \A e \in events : PaidOn(e) \in Nat
<1>1. ASSUME NEW c PROVE HeldBefore(c) \in Nat
  <2>1. StockBefore(c) \in SUBSET events /\ SplitBefore(c) \in SUBSET splits
    BY DEF StockBefore, SplitBefore
  <2>2. Stocked(StockBefore(c)) /\ Converted(SplitBefore(c))
    <3>1. IsFiniteSet(StockBefore(c)) /\ IsFiniteSet(SplitBefore(c))
      BY <2>1, InputsAreFinite, FS_Subset
    <3>2. \A s \in SplitBefore(c) : s.num > 0
      BY DEF SplitBefore
    <3> QED
      BY <2>1, <3>1, <3>2 DEF Stocked, Converted, InputsFit
  <2>3. PICK g : g = Growth(StockBefore(c), SplitBefore(c))
    OBVIOUS
  <2>4. g.num \in Nat \ {0} /\ g.den \in Nat \ {0} /\ BaseShares \in Nat
    BY <2>2, <2>3, GrowthIsPositive, SimulatorAssumption
  <2>5. PICK n, m : n = g.num /\ m = g.den
    OBVIOUS
  <2>6. PICK x \in Nat : x = BaseShares * n
    BY <2>4, <2>5
  <2>7. x \div m \in Nat
    BY <2>4, <2>5, <2>6
  <2> QED
    BY <2>3, <2>5, <2>6, <2>7 DEF HeldBefore
<1>2. ASSUME NEW e \in events PROVE PaidOn(e) \in Nat
  <2>1. PICK x, y : x = HeldBefore(e.cashDay) /\ y = e.cash
    OBVIOUS
  <2>2. x \in Nat /\ y \in Nat
    BY <1>1, <2>1, InputsAreFinite
  <2>3. x * y \in Nat
    BY <2>2
  <2> QED
    BY <2>1, <2>3 DEF PaidOn
<1> QED
  BY <1>1, <1>2

\* An applied action is one more that is done, in order.
Applies(a) ==
    /\ IsNext(a)
    /\ actions' = actions \ {a}
    /\ UNCHANGED <<events, splits, price>>

LEMMA AppliedIsDone ==
  ASSUME InputsFit, AppliedInOrder, NEW a, Applies(a)
  PROVE  /\ InputsFit' /\ AppliedInOrder'
         /\ a \in ActionsOf(events, splits) /\ a \notin Done
         /\ Done' = Done \cup {a}
         /\ Cardinality(Done') = Cardinality(Done) + 1
         /\ Cardinality(Done') \in 1 .. 2 * MaxEvents
<1>1. a \in actions /\ a \in ActionsOf(events, splits) /\ a \notin Done
  BY DEF Applies, IsNext, InputsFit, Done
<1>2. Done' = Done \cup {a}
  BY <1>1 DEF Applies, Done
<1>3. InputsFit'
  BY DEF InputsFit, Applies
<1>4. AppliedInOrder'
  BY <1>2 DEF AppliedInOrder, Applies, IsNext
<1>5. Cardinality(Done') = Cardinality(Done) + 1
  BY <1>1, <1>2, InputsAreFinite, FS_AddElement
<1>6. Cardinality(Done') \in 0 .. 2 * MaxEvents
  <2>2. IsFiniteSet(Done')
    BY <1>2, InputsAreFinite, FS_AddElement
  <2>3. Cardinality(Done') \in Nat /\ Cardinality(Done) \in Nat
    BY <2>2, InputsAreFinite, FS_CardinalityType
  <2>4. ActionsOf(events, splits)' = ActionsOf(events, splits)
    BY DEF Applies
  <2>5. PICK A : A = ActionsOf(events, splits)
    OBVIOUS
  <2>6. IsFiniteSet(A) /\ Cardinality(A) <= 2 * MaxEvents
    BY <2>5, InputsAreFinite, FewActions DEF InputsFit
  <2>7. Done' \in SUBSET A
    BY <2>4, <2>5 DEF Done
  <2>8. Cardinality(Done') <= Cardinality(A)
    BY <2>6, <2>7, FS_Subset
  <2>9. Cardinality(A) \in Nat
    BY <2>6, FS_CardinalityType
  <2>10. MaxEvents \in Nat
    BY SimulatorAssumption
  <2> QED
    BY <2>3, <2>6, <2>8, <2>9, <2>10
<1>7. Cardinality(Done') \in 1 .. 2 * MaxEvents
  BY <1>5, <1>6, InputsAreFinite
<1> QED
  BY <1>1, <1>2, <1>3, <1>4, <1>5, <1>7

\* What has been applied when a day begins is what lies before that day.
LEMMA DoneBefore ==
  ASSUME InputsFit, AppliedInOrder, NEW e \in events, IsNext(CashOf(e))
  PROVE  StockBefore(e.cashDay) = StockDone /\ SplitBefore(e.cashDay) = SplitDone
<1>1. PICK d : d = e.cashDay
  OBVIOUS
<1>2. d \in Nat /\ CashOf(e) \in actions /\ CashOf(e) \in ActionsOf(events, splits)
  BY <1>1, InputsAreFinite DEF IsNext, InputsFit
<1>3. InPeriod(d)
  BY <1>1, <1>2, ActionsOfEvents
<1>4. CashOf(e).day = d /\ Kinds[CashOf(e).kind] = 1
  BY <1>1 DEF CashOf, Kinds
<1>5. ASSUME NEW x \in events
      PROVE  x \in StockBefore(d) <=> x \in StockDone
  <2>1. StockOf(x).day = x.stockDay /\ x.stockDay \in Nat /\ Kinds[StockOf(x).kind] = 2
    BY InputsAreFinite DEF StockOf, Kinds
  <2>2. ASSUME x \in StockBefore(d) PROVE x \in StockDone
    <3>1. x.stock > 0 /\ InPeriod(x.stockDay) /\ x.stockDay < d
      BY <2>2 DEF StockBefore, Until
    <3>2. StockOf(x) \in ActionsOf(events, splits)
      BY <3>1, ActionsOfEvents
    <3>3. ~ComesBefore(CashOf(e), StockOf(x))
      BY <1>2, <1>4, <2>1, <3>1 DEF ComesBefore
    <3>4. StockOf(x) \notin actions
      BY <3>3 DEF IsNext
    <3> QED
      BY <3>2, <3>4 DEF StockDone, Done
  <2>3. ASSUME x \in StockDone PROVE x \in StockBefore(d)
    <3>1. StockOf(x) \in ActionsOf(events, splits) /\ StockOf(x) \in Done
      BY <2>3 DEF StockDone, Done
    <3>2. x.stock > 0 /\ InPeriod(x.stockDay)
      BY <3>1, ActionsOfEvents
    <3>3. ComesBefore(StockOf(x), CashOf(e))
      BY <1>2, <3>1 DEF AppliedInOrder
    <3>4. x.stockDay < d
      BY <1>2, <1>4, <2>1, <3>3 DEF ComesBefore
    <3> QED
      BY <3>2, <3>4 DEF StockBefore, Until
  <2> QED
    BY <2>2, <2>3
<1>6. ASSUME NEW x \in splits
      PROVE  x \in SplitBefore(d) <=> x \in SplitDone
  <2>1. SplitOf(x).day = x.day /\ x.day \in Nat /\ Kinds[SplitOf(x).kind] = 3
    BY InputsAreFinite DEF SplitOf, Kinds
  <2>2. ASSUME x \in SplitBefore(d) PROVE x \in SplitDone
    <3>1. x.num > 0 /\ InPeriod(x.day) /\ x.day < d
      BY <2>2 DEF SplitBefore, Until
    <3>2. SplitOf(x) \in ActionsOf(events, splits)
      BY <3>1, ActionsOfEvents
    <3>3. ~ComesBefore(CashOf(e), SplitOf(x))
      BY <1>2, <1>4, <2>1, <3>1 DEF ComesBefore
    <3>4. SplitOf(x) \notin actions
      BY <3>3 DEF IsNext
    <3> QED
      BY <3>2, <3>4 DEF SplitDone, Done
  <2>3. ASSUME x \in SplitDone PROVE x \in SplitBefore(d)
    <3>1. SplitOf(x) \in ActionsOf(events, splits) /\ SplitOf(x) \in Done
      BY <2>3 DEF SplitDone, Done
    <3>2. x.num > 0 /\ InPeriod(x.day)
      BY <3>1, ActionsOfEvents
    <3>3. ComesBefore(SplitOf(x), CashOf(e))
      BY <1>2, <3>1 DEF AppliedInOrder
    <3>4. x.day < d
      BY <1>2, <1>4, <2>1, <3>3 DEF ComesBefore
    <3> QED
      BY <3>2, <3>4 DEF SplitBefore, Until
  <2> QED
    BY <2>2, <2>3
<1>7. StockBefore(d) \subseteq events /\ StockDone \subseteq events
        /\ SplitBefore(d) \subseteq splits /\ SplitDone \subseteq splits
  BY DEF StockBefore, StockDone, SplitBefore, SplitDone
<1> QED
  BY <1>1, <1>5, <1>6, <1>7

\* The shares are what the growth so far says, without a remainder.
LEMMA GrownShares ==
  ASSUME InputsFit, HoldingsFit, SharesGrew
  PROVE  (BaseShares * Growth(StockDone, SplitDone).num) \div Growth(StockDone, SplitDone).den
            = totalShares
<1>1. PICK g : g = Growth(StockDone, SplitDone)
  OBVIOUS
<1>2. g.num \in Nat \ {0} /\ g.den \in Nat \ {0}
  BY <1>1, InputsAreFinite, GrowthIsPositive
<1>3. totalShares \in Nat
  BY DEF HoldingsFit, IsFine
<1>4. (totalShares * g.den) \div g.den = totalShares
  BY <1>2, <1>3, ExactQuotient
<1> QED
  BY <1>1, <1>4 DEF SharesGrew

\* What is paid when an action is next is what the property says.
LEMMA PaidWhenNext ==
  ASSUME InputsFit, HoldingsFit, AppliedInOrder, SharesGrew, NEW e \in events, IsNext(CashOf(e))
  PROVE  PaidOn(e) = totalShares * e.cash
BY DoneBefore, GrownShares DEF PaidOn, HeldBefore

\* Each kind of action adds to one of the sets of what is done.
LEMMA DoneByKind ==
  ASSUME InputsFit, AppliedInOrder, NEW a, Applies(a)
  PROVE  /\ \A e \in events : a = CashOf(e) =>
                /\ CashDone' = CashDone \cup {e} /\ e \notin CashDone
                /\ UNCHANGED <<StockDone, SplitDone>>
         /\ \A e \in events : a = StockOf(e) =>
                /\ StockDone' = StockDone \cup {e} /\ e \notin StockDone
                /\ UNCHANGED <<CashDone, SplitDone>>
         /\ \A s \in splits : a = SplitOf(s) =>
                /\ SplitDone' = SplitDone \cup {s} /\ s \notin SplitDone
                /\ UNCHANGED <<CashDone, StockDone>>
<1>1. Done' = Done \cup {a} /\ a \notin Done
  BY AppliedIsDone
<1>2. events' = events /\ splits' = splits
  BY DEF Applies
<1>3. /\ CashDone' = {e \in events : CashOf(e) \in Done \/ CashOf(e) = a}
      /\ StockDone' = {e \in events : StockOf(e) \in Done \/ StockOf(e) = a}
      /\ SplitDone' = {s \in splits : SplitOf(s) \in Done \/ SplitOf(s) = a}
  BY <1>1, <1>2 DEF CashDone, StockDone, SplitDone
<1>4. /\ \A e \in events : a = CashOf(e) =>
            /\ CashDone' = CashDone \cup {e} /\ e \notin CashDone
            /\ StockDone' = StockDone /\ SplitDone' = SplitDone
  BY <1>1, <1>3, ActionsAreDistinct DEF CashDone, StockDone, SplitDone
<1>5. /\ \A e \in events : a = StockOf(e) =>
            /\ StockDone' = StockDone \cup {e} /\ e \notin StockDone
            /\ CashDone' = CashDone /\ SplitDone' = SplitDone
  BY <1>1, <1>3, ActionsAreDistinct DEF CashDone, StockDone, SplitDone
<1>6. /\ \A s \in splits : a = SplitOf(s) =>
            /\ SplitDone' = SplitDone \cup {s} /\ s \notin SplitDone
            /\ CashDone' = CashDone /\ StockDone' = StockDone
  BY <1>1, <1>3, ActionsAreDistinct DEF CashDone, StockDone, SplitDone
<1> QED
  BY <1>4, <1>5, <1>6

\* What holders were paid depends on the input alone.
LEMMA PaidStays ==
  ASSUME UNCHANGED <<events, splits>>
  PROVE  /\ \A d : HeldBefore(d)' = HeldBefore(d)
         /\ \A e : PaidOn(e)' = PaidOn(e)
<1>1. ASSUME NEW d PROVE HeldBefore(d)' = HeldBefore(d)
  BY DEF HeldBefore, StockBefore, SplitBefore
<1> QED
  BY <1>1 DEF PaidOn

\* One more amount in the sum of the cash.
LEMMA CashAdds ==
  ASSUME InputsFit, NEW S \in SUBSET events, NEW e \in events, e \notin S
  PROVE  SumFunctionOnSet([x \in S \cup {e} |-> PaidOn(x)], S \cup {e})
            = PaidOn(e) + SumFunctionOnSet([x \in S |-> PaidOn(x)], S)
<1>1. IsFiniteSet(S)
  BY InputsAreFinite, FS_Subset
<1>2. PICK T, f, g : /\ T = S \cup {e} /\ f = [x \in T |-> PaidOn(x)]
                     /\ g = [x \in S |-> PaidOn(x)]
  OBVIOUS
<1>3. IsFiniteSet(T) /\ T \ {e} = S /\ e \in T
  BY <1>1, <1>2, FS_AddElement
<1>4. \A x \in T : PaidOn(x) \in Nat
  <2>1. T \subseteq events
    BY <1>2
  <2> QED
    BY <2>1, HeldIsNatural
<1>5. \A x \in T : f[x] \in Int
  BY <1>2, <1>4
<1>6. \A x \in S : f[x] = g[x]
  BY <1>2
<1>7. f[e] = PaidOn(e)
  BY <1>2, <1>3
<1>8. SumFunctionOnSet(f, T) = f[e] + SumFunctionOnSet(f, T \ {e})
  BY <1>3, <1>5, SumTakesOut
<1>9. SumFunctionOnSet(f, S) = SumFunctionOnSet(g, S)
  BY <1>1, <1>6, SumsAgree
<1> QED
  BY <1>2, <1>3, <1>7, <1>8, <1>9

\* The price of a day that counts.
LEMMA PriceOfDay ==
  ASSUME InputsFit, NEW d \in Nat, InPeriod(d)
  PROVE  d \in Window /\ price[d] \in Nat /\ (price[d] > 0 => price[d] \in Prices \ {0})
<1>1. d \in Window
  BY SimulatorAssumption DEF Window, InPeriod
<1>2. price[d] \in Prices
  BY <1>1 DEF InputsFit
<1>3. price[d] \in Nat
  BY <1>2, SimulatorAssumption
<1>4. price[d] > 0 => price[d] # 0
  BY <1>3
<1> QED
  BY <1>1, <1>2, <1>3, <1>4

LEMMA PriceAtEnd ==
  ASSUME InputsFit
  PROVE  price[End] \in Nat \ {0}
<1>1. InPeriod(End) /\ End \in Nat
  BY SimulatorAssumption DEF InPeriod
<1> QED
  BY <1>1, PriceOfDay DEF InputsFit

LEMMA CashStep ==
  ASSUME SimulationInvariant, NEW a \in actions, ApplyCash(a)
  PROVE  SimulationInvariant'
<1>1. Applies(a)
  BY DEF ApplyCash, ReinvestOrKeep, Applies
<1>2. /\ InputsFit /\ HoldingsFit /\ AppliedInOrder /\ SharesGrew /\ CashAdded
      /\ NoShares => MeasuresCompare
  BY DEF SimulationInvariant
<1>3. PICK e \in events : a = CashOf(e) /\ e.cash > 0 /\ InPeriod(e.cashDay)
  BY <1>2, ActionKinds DEF ApplyCash, InputsFit
<1>4. /\ InputsFit' /\ AppliedInOrder'
      /\ CashDone' = CashDone \cup {e} /\ e \notin CashDone
      /\ StockDone' = StockDone /\ SplitDone' = SplitDone
      /\ Cardinality(Done') = Cardinality(Done) + 1
      /\ Cardinality(Done') \in 1 .. 2 * MaxEvents
  BY <1>1, <1>2, <1>3, AppliedIsDone, DoneByKind
<1>5. PICK p, c, P : p = price[e.cashDay] /\ c = e.cash /\ P = price[End]
  OBVIOUS
<1>6. /\ p \in Nat /\ (p > 0 => p \in Prices \ {0}) /\ c \in Nat \ {0} /\ P \in Nat \ {0}
  BY <1>2, <1>3, <1>5, PriceOfDay, PriceAtEnd, InputsAreFinite
<1>7. a.num = c /\ a.day = e.cashDay
  BY <1>3, <1>5 DEF CashOf
<1>8. PICK tS, tC, rS, rC : tS = totalShares /\ tC = totalCash /\ rS = reinvestedShares /\ rC = reinvestedCash
  OBVIOUS
<1>9. tS \in Nat \ {0} /\ tC \in Nat /\ rS \in Nat \ {0} /\ rC \in Nat
  BY <1>2, <1>8 DEF HoldingsFit, IsFine
<1>10. PICK n : n = Cardinality(Done')
  OBVIOUS
<1>11. n \in 1 .. 2 * MaxEvents /\ n - 1 = Cardinality(Done) /\ n \in 0 .. 2 * MaxEvents
  <2>1. Cardinality(Done) \in Nat
    BY <1>2, InputsAreFinite
  <2>2. MaxEvents \in Nat
    BY SimulatorAssumption
  <2> QED
    BY <1>4, <1>10, <2>1, <2>2
<1>12. IsFine(tS, n - 1) /\ IsFine(rS, n - 1)
  BY <1>2, <1>8, <1>11 DEF HoldingsFit
<1>13. IsFine(tS, n) /\ IsFine(rS, n)
  BY <1>11, <1>12, FineHoldings
\* What the payout buys, or what is kept of it.
<1>14. PICK k, u, w : /\ k = (IF p > 0 THEN (rS * c) \div p ELSE 0)
                      /\ u = (IF p > 0 THEN 0 ELSE rS * c)
                      /\ w = tS * c
  OBVIOUS
<1>15. /\ totalShares' = tS /\ totalCash' = tC + w
       /\ reinvestedShares' = rS + k /\ reinvestedCash' = rC + u
       /\ priceShares' = priceShares
  <2>1. totalShares' = tS /\ totalCash' = tC + w /\ priceShares' = priceShares
    BY <1>7, <1>8, <1>14 DEF ApplyCash
  <2>2. CASE p > 0
    BY <1>5, <1>7, <1>8, <1>9, <1>14, <2>1, <2>2 DEF ApplyCash, ReinvestOrKeep
  <2>3. CASE ~(p > 0)
    BY <1>5, <1>7, <1>8, <1>9, <1>14, <2>1, <2>3 DEF ApplyCash, ReinvestOrKeep
  <2> QED
    BY <2>2, <2>3
<1>16. k \in Nat /\ u \in Nat /\ w \in Nat /\ IsFine(rS + k, n)
       /\ (p > 0 => k * p = rS * c /\ u = 0) /\ (p = 0 => k = 0 /\ u = rS * c)
  <2>1. w \in Nat /\ rS * c \in Nat
    BY <1>6, <1>9, <1>14
  <2>2. CASE p > 0
    <3>1. <<c, p>> \in Rates
      BY <1>2, <1>5, <1>6, <2>2 DEF Rates, InputsFit
    <3>2. IsFine((rS * c) \div p, n) /\ ((rS * c) \div p) * p = rS * c
      <4>1. \A num, den \in Nat : (den > 0 /\ <<num, den>> \in Rates) =>
                /\ IsFine((rS * num) \div den, n)
                /\ ((rS * num) \div den) * den = rS * num
        BY <1>11, <1>12, FineHoldings
      <4>2. c \in Nat /\ p \in Nat
        BY <1>6
      <4> QED
        BY <2>2, <3>1, <4>1, <4>2
    <3>3. k = (rS * c) \div p /\ u = 0
      BY <1>14, <2>2
    <3>4. k \in Nat
      BY <3>2, <3>3 DEF IsFine
    <3>5. IsFine(rS + k, n)
      BY <1>11, <1>13, <3>2, <3>3, FineSum
    <3> QED
      BY <2>1, <2>2, <3>2, <3>3, <3>4, <3>5
  <2>3. CASE p = 0
    BY <1>9, <1>13, <1>14, <2>1, <2>3
  <2> QED
    BY <1>6, <2>2, <2>3
<1>17. HoldingsFit'
  BY <1>2, <1>9, <1>10, <1>13, <1>15, <1>16 DEF HoldingsFit
<1>18. SharesGrew'
  BY <1>2, <1>4, <1>8, <1>15 DEF SharesGrew
<1>19. CashAdded'
  <2>1. IsNext(CashOf(e))
    BY <1>1, <1>3 DEF Applies
  <2>2. PaidOn(e) = w
    BY <1>2, <1>5, <1>8, <1>14, <2>1, PaidWhenNext
  <2>3. CashDone \in SUBSET events
    BY DEF CashDone
  <2>4. PICK S : S = CashDone
    OBVIOUS
  <2>5. SumFunctionOnSet([x \in S \cup {e} |-> PaidOn(x)], S \cup {e})
            = w + SumFunctionOnSet([x \in S |-> PaidOn(x)], S)
    BY <1>2, <1>4, <2>2, <2>3, <2>4, CashAdds
  <2>6. SumFunctionOnSet([x \in S |-> PaidOn(x)], S) = tC
    BY <1>2, <1>8, <2>4 DEF CashAdded
  <2>7. \A x : PaidOn(x)' = PaidOn(x)
    BY <1>1, PaidStays DEF Applies
  <2>8. [x \in CashDone |-> PaidOn(x)]' = [x \in S \cup {e} |-> PaidOn(x)]
    BY <1>4, <2>4, <2>7
  <2>9. SumFunctionOnSet([x \in CashDone |-> PaidOn(x)], CashDone)' = w + tC
    BY <1>4, <2>4, <2>5, <2>6, <2>8
  <2> QED
    BY <1>9, <1>15, <1>16, <2>9 DEF CashAdded
<1>20. ASSUME NoShares' PROVE MeasuresCompare'
  <2>1. MeasuresCompare
    BY <1>1, <1>2, <1>20 DEF NoShares, Applies
  <2>2. price' = price
    BY <1>1 DEF Applies
  <2>3. PICK x, y, z, v, t : x = tS * P /\ y = rS * P /\ z = k * P /\ v = rS * c /\ t = k * p
    OBVIOUS
  <2>4. x \in Nat /\ y \in Nat /\ z \in Nat /\ v \in Nat /\ t \in Nat
    BY <1>6, <1>9, <1>16, <2>3
  <2>5. Held = x + tC /\ Reinvested = y + rC
    BY <1>5, <1>8, <2>3 DEF Held, Reinvested
  <2>6. Held' = x + (tC + w) /\ Reinvested' = (y + z) + (rC + u)
    <3>1. (rS + k) * P = y + z
      BY <1>6, <1>9, <1>16, <2>3
    <3> QED
      BY <1>5, <1>15, <2>2, <2>3, <3>1 DEF Held, Reinvested
  <2>7. (p > 0 => t = v /\ u = 0) /\ (p = 0 => k = 0 /\ z = 0 /\ u = v)
    BY <1>6, <1>16, <2>3
  <2>8. (p <= P => t <= z) /\ (p >= P => z <= t)
    <3>1. CASE p <= P
      <4>1. PICK d \in Nat : P = p + d
        <5>1. P - p \in Nat /\ P = p + (P - p)
          BY <1>6, <3>1
        <5> QED
          BY <5>1
      <4>2. k * P = k * p + k * d /\ k * d \in Nat
        BY <1>6, <1>16, <4>1
      <4>3. t <= z
        BY <2>3, <2>4, <4>2
      <4>4. p >= P => z = t
        <5>1. p >= P => p = P
          BY <1>6, <3>1
        <5> QED
          BY <2>3, <5>1
      <4> QED
        BY <2>4, <4>3, <4>4
    <3>2. CASE p > P
      <4>1. PICK d \in Nat : p = P + d
        <5>1. p - P \in Nat /\ p = P + (p - P)
          BY <1>6, <3>2
        <5> QED
          BY <5>1
      <4>2. k * p = k * P + k * d /\ k * d \in Nat
        BY <1>6, <1>16, <4>1
      <4>3. z <= t
        BY <2>3, <2>4, <4>2
      <4> QED
        BY <1>6, <3>2, <4>3
    <3> QED
      BY <1>6, <3>1, <3>2
  <2>9. (rS = tS => v = w) /\ (rS >= tS => v >= w)
    <3>1. CASE rS >= tS
      <4>1. PICK d \in Nat : rS = tS + d
        <5>1. rS - tS \in Nat /\ rS = tS + (rS - tS)
          BY <1>9, <3>1
        <5> QED
          BY <5>1
      <4>2. rS * c = tS * c + d * c /\ d * c \in Nat
        BY <1>6, <1>9, <4>1
      <4> QED
        BY <1>14, <1>16, <2>3, <4>2
    <3>2. CASE ~(rS >= tS)
      BY <1>9, <3>2
    <3> QED
      BY <3>1, <3>2
  <2>10. \A f \in CashDone' : f \in CashDone \/ f = e
    BY <1>4
  <2>11. (\A f \in CashDone : price[f.cashDay] = 0) => rS = tS /\ rC = tC
    BY <1>8, <2>1 DEF MeasuresCompare
  <2>12. (\A f \in CashDone : price[f.cashDay] \in 0 .. P) => rS >= tS /\ y + rC >= x + tC
    BY <1>5, <1>8, <2>1, <2>5 DEF MeasuresCompare
  <2>13. ASSUME \A f \in CashDone' : price'[f.cashDay] = 0
         PROVE  reinvestedShares' = totalShares' /\ reinvestedCash' = totalCash'
    <3>1. p = 0 /\ \A f \in CashDone : price[f.cashDay] = 0
      BY <1>4, <1>5, <2>2, <2>13
    <3>2. rS = tS /\ rC = tC
      BY <2>11, <3>1
    <3>3. k = 0 /\ u = w
      BY <2>7, <2>9, <3>1, <3>2
    <3> QED
      BY <1>9, <1>15, <3>2, <3>3
  <2>14. ASSUME \A f \in CashDone' : price'[f.cashDay] \in 0 .. price'[End]
         PROVE  reinvestedShares' >= totalShares' /\ Reinvested' >= Held'
    <3>1. p \in 0 .. P /\ \A f \in CashDone : price[f.cashDay] \in 0 .. P
      BY <1>4, <1>5, <2>2, <2>14
    <3>2. rS >= tS /\ y + rC >= x + tC /\ v >= w
      BY <2>9, <2>12, <3>1
    <3>3. z + u >= v
      BY <1>6, <1>16, <2>4, <2>7, <2>8, <3>1
    <3> QED
      BY <1>9, <1>15, <1>16, <2>4, <2>6, <3>2, <3>3
  <2>15. ASSUME \A f \in CashDone' : price'[f.cashDay] = 0 \/ price'[f.cashDay] >= price'[End],
                \A f, g \in CashDone' : f = g
         PROVE  Reinvested' <= Held'
    <3>1. p = 0 \/ p >= P
      BY <1>4, <1>5, <2>2, <2>15
    <3>2. CashDone = {}
      BY <1>4, <2>15
    <3>3. rS = tS /\ rC = tC /\ v = w
      BY <2>9, <2>11, <3>2
    <3>4. x = y
      BY <2>3, <3>3
    <3>5. z + u <= v
      BY <1>6, <1>16, <2>4, <2>7, <2>8, <3>1
    <3> QED
      BY <1>9, <1>16, <2>4, <2>6, <3>3, <3>4, <3>5
  <2> QED
    BY <2>13, <2>14, <2>15 DEF MeasuresCompare
<1>21. events' # {}
  BY <1>1, <1>3 DEF Applies
<1> QED
  BY <1>4, <1>17, <1>18, <1>19, <1>20, <1>21 DEF SimulationInvariant

LEMMA StockStep ==
  ASSUME SimulationInvariant, NEW a \in actions, ApplyStock(a)
  PROVE  SimulationInvariant'
<1>1. Applies(a)
  BY DEF ApplyStock, Applies
<1>2. /\ InputsFit /\ HoldingsFit /\ AppliedInOrder /\ SharesGrew /\ CashAdded
  BY DEF SimulationInvariant
<1>3. PICK e \in events : a = StockOf(e) /\ e.stock > 0 /\ InPeriod(e.stockDay)
  BY <1>2, ActionKinds DEF ApplyStock, InputsFit
<1>4. /\ InputsFit' /\ AppliedInOrder'
      /\ StockDone' = StockDone \cup {e} /\ e \notin StockDone
      /\ CashDone' = CashDone /\ SplitDone' = SplitDone
      /\ Cardinality(Done') = Cardinality(Done) + 1
      /\ Cardinality(Done') \in 1 .. 2 * MaxEvents
  BY <1>1, <1>2, <1>3, AppliedIsDone, DoneByKind
<1>5. PICK c : c = e.stock
  OBVIOUS
<1>6. c \in Nat \ {0} /\ Par \in Nat \ {0} /\ BaseShares \in Nat
  BY <1>2, <1>3, <1>5, InputsAreFinite, SimulatorAssumption
<1>7. a.num = c /\ a.den = Par
  BY <1>3, <1>5 DEF StockOf
<1>8. PICK tS, rS : tS = totalShares /\ rS = reinvestedShares
  OBVIOUS
<1>9. tS \in Nat \ {0} /\ rS \in Nat \ {0}
  BY <1>2, <1>8 DEF HoldingsFit, IsFine
<1>10. PICK n : n = Cardinality(Done')
  OBVIOUS
<1>11. n \in 1 .. 2 * MaxEvents /\ n - 1 = Cardinality(Done) /\ n \in 0 .. 2 * MaxEvents
  <2>1. Cardinality(Done) \in Nat
    BY <1>2, InputsAreFinite
  <2>2. MaxEvents \in Nat
    BY SimulatorAssumption
  <2> QED
    BY <1>4, <1>10, <2>1, <2>2
<1>12. IsFine(tS, n - 1) /\ IsFine(rS, n - 1)
  BY <1>2, <1>8, <1>11 DEF HoldingsFit
<1>13. PICK k, l : k = (tS * c) \div Par /\ l = (rS * c) \div Par
  OBVIOUS
<1>14. totalShares' = tS + k /\ reinvestedShares' = rS + l
       /\ UNCHANGED <<priceShares, totalCash, reinvestedCash>>
  BY <1>7, <1>8, <1>13 DEF ApplyStock
<1>15. <<c, Par>> \in Rates
  BY <1>2, <1>3, <1>5 DEF Rates, InputsFit
<1>16. IsFine(tS, n) /\ IsFine(k, n) /\ k * Par = tS * c /\ IsFine(rS, n) /\ IsFine(l, n)
  <2>1. \A x : IsFine(x, n - 1) =>
            /\ IsFine(x, n)
            /\ \A num, den \in Nat : (den > 0 /\ <<num, den>> \in Rates) =>
                /\ IsFine((x * num) \div den, n)
                /\ ((x * num) \div den) * den = x * num
    BY <1>11, FineHoldings
  <2>2. \A num, den \in Nat : (den > 0 /\ <<num, den>> \in Rates) =>
            /\ IsFine((tS * num) \div den, n) /\ ((tS * num) \div den) * den = tS * num
            /\ IsFine((rS * num) \div den, n)
    BY <1>12, <2>1
  <2>3. c \in Nat /\ Par \in Nat /\ Par > 0
    BY <1>6
  <2>4. IsFine(k, n) /\ k * Par = tS * c /\ IsFine(l, n)
    BY <1>13, <1>15, <2>2, <2>3
  <2> QED
    BY <1>12, <2>1, <2>4
<1>17. k \in Nat /\ l \in Nat /\ IsFine(tS + k, n) /\ IsFine(rS + l, n)
  <2>1. k \in Nat /\ l \in Nat
    BY <1>16 DEF IsFine
  <2> QED
    BY <1>11, <1>16, <2>1, FineSum
<1>18. HoldingsFit'
  BY <1>2, <1>9, <1>10, <1>14, <1>17 DEF HoldingsFit
<1>19. SharesGrew'
  <2>1. Stocked(StockDone) /\ Converted(SplitDone) /\ e \in Events
    BY <1>2, InputsAreFinite DEF InputsFit
  <2>2. PICK g, h : g = Growth(StockDone, SplitDone).num /\ h = Growth(StockDone, SplitDone).den
    OBVIOUS
  <2>3. g \in Nat /\ h \in Nat
    BY <2>1, <2>2, GrowthIsPositive
  <2>4. PICK S, T : S = StockDone /\ T = SplitDone
    OBVIOUS
  <2>5. Growth(S \cup {e}, T).num = (Par + c) * g /\ Growth(S \cup {e}, T).den = Par * h
    BY <1>4, <1>5, <2>1, <2>2, <2>4, GrowthByStock
  <2>6. Growth(StockDone, SplitDone)' = Growth(S \cup {e}, T)
    BY <1>4, <2>4 DEF Growth
  <2>7. tS * h = BaseShares * g
    BY <1>2, <1>8, <2>2 DEF SharesGrew
  <2>8. (tS + k) * (Par * h) = BaseShares * ((Par + c) * g)
    <3>1. (tS + k) * Par = (Par + c) * tS
      BY <1>6, <1>9, <1>16, <1>17
    <3>2. PICK q : q = Par + c
      OBVIOUS
    <3>3. q \in Nat
      BY <1>6, <3>2
    <3>4. (tS + k) * (Par * h) = ((tS + k) * Par) * h
      BY <1>6, <1>9, <1>17, <2>3
    <3>5. (q * tS) * h = q * (tS * h)
      BY <1>9, <2>3, <3>3
    <3>6. q * (BaseShares * g) = BaseShares * (q * g)
      BY <1>6, <2>3, <3>3
    <3> QED
      BY <2>7, <3>1, <3>2, <3>4, <3>5, <3>6
  <2> QED
    BY <1>14, <2>5, <2>6, <2>8 DEF SharesGrew
<1>20. CashAdded'
  <2>1. \A x : PaidOn(x)' = PaidOn(x)
    BY <1>1, PaidStays DEF Applies
  <2>2. [x \in CashDone |-> PaidOn(x)]' = [x \in CashDone |-> PaidOn(x)]
    BY <1>4, <2>1
  <2> QED
    BY <1>2, <1>4, <1>14, <2>2 DEF CashAdded
<1>21. ~NoShares' /\ events' # {}
  <2>1. e \in events' /\ e.stock # 0
    BY <1>1, <1>5, <1>6 DEF Applies
  <2> QED
    BY <2>1 DEF NoShares
<1> QED
  BY <1>4, <1>18, <1>19, <1>20, <1>21 DEF SimulationInvariant

LEMMA SplitStep ==
  ASSUME SimulationInvariant, NEW a \in actions, ApplySplit(a)
  PROVE  SimulationInvariant'
<1>1. Applies(a)
  BY DEF ApplySplit, Applies
<1>2. /\ InputsFit /\ HoldingsFit /\ AppliedInOrder /\ SharesGrew /\ CashAdded
      /\ events = {} => SplitsKeepMeasures
  BY DEF SimulationInvariant
<1>3. PICK s \in splits : a = SplitOf(s) /\ s.num > 0 /\ InPeriod(s.day)
  BY <1>2, ActionKinds DEF ApplySplit, InputsFit
<1>4. /\ InputsFit' /\ AppliedInOrder'
      /\ SplitDone' = SplitDone \cup {s} /\ s \notin SplitDone
      /\ CashDone' = CashDone /\ StockDone' = StockDone
      /\ Cardinality(Done') = Cardinality(Done) + 1
      /\ Cardinality(Done') \in 1 .. 2 * MaxEvents
  BY <1>1, <1>2, <1>3, AppliedIsDone, DoneByKind
<1>5. PICK c, d : c = s.num /\ d = s.den
  OBVIOUS
<1>6. c \in Nat \ {0} /\ d \in Nat \ {0} /\ BaseShares \in Nat
  BY <1>2, <1>3, <1>5, InputsAreFinite, SimulatorAssumption
<1>7. a.num = c /\ a.den = d
  BY <1>3, <1>5 DEF SplitOf
<1>8. PICK tS, rS, pS : tS = totalShares /\ rS = reinvestedShares /\ pS = priceShares
  OBVIOUS
<1>9. tS \in Nat \ {0} /\ rS \in Nat \ {0} /\ pS \in Nat
  BY <1>2, <1>8 DEF HoldingsFit, IsFine
<1>10. PICK n : n = Cardinality(Done')
  OBVIOUS
<1>11. n \in 1 .. 2 * MaxEvents /\ n - 1 = Cardinality(Done)
  <2>1. Cardinality(Done) \in Nat
    BY <1>2, InputsAreFinite
  <2>2. MaxEvents \in Nat
    BY SimulatorAssumption
  <2> QED
    BY <1>4, <1>10, <2>1, <2>2
<1>12. IsFine(tS, n - 1) /\ IsFine(rS, n - 1)
  BY <1>2, <1>8, <1>11 DEF HoldingsFit
<1>13. PICK k, l, m : k = (tS * c) \div d /\ l = (rS * c) \div d /\ m = (pS * c) \div d
  OBVIOUS
<1>14. totalShares' = k /\ reinvestedShares' = l /\ priceShares' = m
       /\ UNCHANGED <<totalCash, reinvestedCash>>
  BY <1>7, <1>8, <1>13 DEF ApplySplit
<1>15. <<c, d>> \in Rates
  BY <1>2, <1>3, <1>5 DEF Rates, InputsFit
<1>16. IsFine(k, n) /\ k * d = tS * c /\ IsFine(l, n) /\ l * d = rS * c
  <2>1. \A x : IsFine(x, n - 1) =>
            \A num, den \in Nat : (den > 0 /\ <<num, den>> \in Rates) =>
                /\ IsFine((x * num) \div den, n)
                /\ ((x * num) \div den) * den = x * num
    BY <1>11, FineHoldings
  <2>2. \A num, den \in Nat : (den > 0 /\ <<num, den>> \in Rates) =>
            /\ IsFine((tS * num) \div den, n) /\ ((tS * num) \div den) * den = tS * num
            /\ IsFine((rS * num) \div den, n) /\ ((rS * num) \div den) * den = rS * num
    BY <1>12, <2>1
  <2>3. c \in Nat /\ d \in Nat /\ d > 0
    BY <1>6
  <2> QED
    BY <1>13, <1>15, <2>2, <2>3
<1>17. k \in Nat \ {0} /\ l \in Nat \ {0} /\ m \in Nat
  <2>1. k \in Nat /\ l \in Nat
    BY <1>16 DEF IsFine
  <2>2. PICK u, v, w : u = tS * c /\ v = rS * c /\ w = pS * c
    OBVIOUS
  <2>3. u \in Nat \ {0} /\ v \in Nat \ {0} /\ w \in Nat
    BY <1>6, <1>9, <2>2
  <2>4. k # 0 /\ l # 0
    <3>1. 0 * d = 0
      BY <1>6
    <3> QED
      BY <1>16, <2>2, <2>3, <3>1
  <2>5. w \div d \in Nat
    BY <1>6, <2>3
  <2> QED
    BY <1>13, <2>1, <2>2, <2>4, <2>5
<1>18. HoldingsFit'
  <2>1. k > 0 /\ l > 0
    BY <1>17
  <2> QED
    BY <1>2, <1>10, <1>14, <1>16, <1>17, <2>1 DEF HoldingsFit
<1>19. SharesGrew'
  <2>1. Stocked(StockDone) /\ Converted(SplitDone) /\ s \in Splits
    BY <1>2, InputsAreFinite DEF InputsFit
  <2>2. PICK g, h : g = Growth(StockDone, SplitDone).num /\ h = Growth(StockDone, SplitDone).den
    OBVIOUS
  <2>3. g \in Nat /\ h \in Nat
    BY <2>1, <2>2, GrowthIsPositive
  <2>4. PICK S, T : S = StockDone /\ T = SplitDone
    OBVIOUS
  <2>5. Growth(S, T \cup {s}).num = c * g /\ Growth(S, T \cup {s}).den = d * h
    BY <1>3, <1>4, <1>5, <2>1, <2>2, <2>4, GrowthBySplit
  <2>6. Growth(StockDone, SplitDone)' = Growth(S, T \cup {s})
    BY <1>4, <2>4 DEF Growth
  <2>7. tS * h = BaseShares * g
    BY <1>2, <1>8, <2>2 DEF SharesGrew
  <2>8. k * (d * h) = BaseShares * (c * g)
    <3>1. k * (d * h) = (k * d) * h
      BY <1>6, <1>17, <2>3
    <3>2. (tS * c) * h = c * (tS * h)
      BY <1>6, <1>9, <2>3
    <3>3. c * (BaseShares * g) = BaseShares * (c * g)
      BY <1>6, <2>3
    <3> QED
      BY <1>16, <2>7, <3>1, <3>2, <3>3
  <2> QED
    BY <1>14, <2>5, <2>6, <2>8 DEF SharesGrew
<1>20. CashAdded'
  <2>1. \A x : PaidOn(x)' = PaidOn(x)
    BY <1>1, PaidStays DEF Applies
  <2>2. [x \in CashDone |-> PaidOn(x)]' = [x \in CashDone |-> PaidOn(x)]
    BY <1>4, <2>1
  <2> QED
    BY <1>2, <1>4, <1>14, <2>2 DEF CashAdded
<1>21. ~NoShares'
  <2>1. s \in splits'
    BY <1>1 DEF Applies
  <2> QED
    BY <2>1 DEF NoShares
<1>22. events' = {} => SplitsKeepMeasures'
  <2>1. events' = events
    BY <1>1 DEF Applies
  <2>2. ASSUME events = {} PROVE SplitsKeepMeasures'
    <3>1. pS = tS /\ tS = rS /\ totalCash = 0 /\ reinvestedCash = 0
      BY <1>2, <1>8, <2>2 DEF SplitsKeepMeasures
    <3>2. m = k /\ k = l
      BY <1>13, <3>1
    <3> QED
      BY <1>14, <3>1, <3>2 DEF SplitsKeepMeasures
  <2> QED
    BY <2>1, <2>2
<1> QED
  BY <1>4, <1>18, <1>19, <1>20, <1>21, <1>22 DEF SimulationInvariant

LEMMA SimulationStarts == CSInit => SimulationInvariant
<1> SUFFICES ASSUME CSInit PROVE SimulationInvariant
  OBVIOUS
<1>1. InputsFit
  <2>1. events \subseteq Events /\ splits \subseteq Splits
        /\ price \in [Window -> Prices] /\ price[End] > 0
        /\ actions \subseteq ActionsOf(events, splits)
    BY DEF CSInit
  <2>2. Cardinality(events) \in Nat /\ Cardinality(splits) \in Nat
    BY <2>1, SimulatorAssumption, FS_Subset, FS_CardinalityType
  <2>3. Cardinality(splits) + Cardinality(events) <= MaxEvents
    BY DEF CSInit
  <2> QED
    BY <2>1, <2>2, <2>3 DEF InputsFit
<1>2. Done = {}
  BY DEF CSInit, Done
<1>3. CashDone = {} /\ StockDone = {} /\ SplitDone = {}
  BY <1>2 DEF CashDone, StockDone, SplitDone
<1>4. BaseShares \in Nat \ {0}
  BY SimulatorAssumption
<1>5. HoldingsFit
  <2>1. Cardinality(Done) = 0
    BY <1>2, FS_EmptySet, Zenon
  <2>2. IsFine(BaseShares, 0)
    BY <1>4, GrainAssumption DEF IsFine
  <2> QED
    BY <1>4, <2>1, <2>2 DEF HoldingsFit, CSInit
<1>6. AppliedInOrder
  BY <1>2 DEF AppliedInOrder
<1>7. SharesGrew
  <2>1. \A f : DOMAIN f = {} => Product(f) = 1
    BY ProductOfNone
  <2>2. Growth({}, {}) = [num |-> 1, den |-> 1]
    BY <2>1 DEF Growth
  <2> QED
    BY <1>3, <1>4, <2>2 DEF SharesGrew, CSInit
<1>8. CashAdded
  <2>1. SumFunctionOnSet([e \in {} |-> PaidOn(e)], {}) = 0
    BY SumOfNone
  <2> QED
    BY <1>3, <2>1 DEF CashAdded, CSInit
<1>9. MeasuresCompare
  <2>1. PICK P : P = price[End]
    OBVIOUS
  <2>2. P \in Nat
    BY <1>1, <2>1, PriceAtEnd
  <2>3. Held = Reinvested /\ Held \in Int
    BY <1>4, <2>1, <2>2 DEF Held, Reinvested, CSInit
  <2> QED
    BY <1>4, <2>3 DEF MeasuresCompare, CSInit
<1>10. SplitsKeepMeasures
  BY DEF CSInit, SplitsKeepMeasures
<1> QED
  BY <1>1, <1>5, <1>6, <1>7, <1>8, <1>9, <1>10 DEF SimulationInvariant

LEMMA SimulationRests ==
  ASSUME SimulationInvariant, UNCHANGED csVars
  PROVE  SimulationInvariant'
<1>1. /\ events' = events /\ splits' = splits /\ price' = price /\ actions' = actions
      /\ priceShares' = priceShares /\ totalShares' = totalShares /\ totalCash' = totalCash
      /\ reinvestedShares' = reinvestedShares /\ reinvestedCash' = reinvestedCash
  BY DEF csVars
<1>2. Done' = Done /\ CashDone' = CashDone /\ StockDone' = StockDone /\ SplitDone' = SplitDone
  BY <1>1 DEF Done, CashDone, StockDone, SplitDone
<1>3. InputsFit' /\ HoldingsFit' /\ AppliedInOrder' /\ SharesGrew'
  BY <1>1, <1>2 DEF SimulationInvariant, InputsFit, HoldingsFit, AppliedInOrder, SharesGrew
<1>4. CashAdded'
  <2>1. \A x : PaidOn(x)' = PaidOn(x)
    BY <1>1, PaidStays
  <2>2. [x \in CashDone |-> PaidOn(x)]' = [x \in CashDone |-> PaidOn(x)]
    BY <1>2, <2>1
  <2> QED
    BY <1>1, <1>2, <2>2 DEF SimulationInvariant, CashAdded
<1>5. (NoShares => MeasuresCompare)' /\ (events = {} => SplitsKeepMeasures)'
  BY <1>1, <1>2 DEF SimulationInvariant, NoShares, MeasuresCompare, Held, Reinvested, SplitsKeepMeasures
<1> QED
  BY <1>3, <1>4, <1>5 DEF SimulationInvariant

LEMMA SimulationHolds == CSSpec => []SimulationInvariant
<1>1. SimulationInvariant /\ [CSNext]_csVars => SimulationInvariant'
  BY CashStep, StockStep, SplitStep, SimulationRests DEF CSNext
<1> QED
  BY <1>1, SimulationStarts, PTL DEF CSSpec

\* The simulated holdings are numbers, some shares are always held, and what is left to apply
\* falls into the period (simulate).
THEOREM SimulationTypeCorrect == CSSpec => []CSTypeOK
<1>1. SimulationInvariant => CSTypeOK
  <2> SUFFICES ASSUME SimulationInvariant PROVE CSTypeOK
    OBVIOUS
  <2>1. InputsFit /\ HoldingsFit
    BY DEF SimulationInvariant
  <2>2. ASSUME NEW a \in actions PROVE a.day \in Window
    <3>1. a \in ActionsOf(events, splits)
      BY <2>1 DEF InputsFit
    <3>2. \A e : /\ CashOf(e).day = e.cashDay /\ StockOf(e).day = e.stockDay
                 /\ SplitOf(e).day = e.day
      BY DEF CashOf, StockOf, SplitOf
    <3>3. \A e \in events : e.cashDay \in Nat /\ e.stockDay \in Nat
      BY <2>1, InputsAreFinite
    <3>4. \A s \in splits : s.day \in Nat
      BY <2>1, InputsAreFinite
    <3>5. CASE a.kind = "cash"
      <4>1. PICK e \in events : a = CashOf(e) /\ InPeriod(e.cashDay)
        BY <3>1, <3>5, ActionKinds
      <4>2. a.day = e.cashDay /\ e.cashDay \in Nat
        BY <3>2, <3>3, <4>1
      <4> QED
        BY <2>1, <4>1, <4>2, PriceOfDay
    <3>6. CASE a.kind = "stock"
      <4>1. PICK e \in events : a = StockOf(e) /\ InPeriod(e.stockDay)
        BY <3>1, <3>6, ActionKinds
      <4>2. a.day = e.stockDay /\ e.stockDay \in Nat
        BY <3>2, <3>3, <4>1
      <4> QED
        BY <2>1, <4>1, <4>2, PriceOfDay
    <3>7. CASE a.kind = "split"
      <4>1. PICK e \in splits : a = SplitOf(e) /\ InPeriod(e.day)
        BY <3>1, <3>7, ActionKinds
      <4>2. a.day = e.day /\ e.day \in Nat
        BY <3>2, <3>4, <4>1
      <4> QED
        BY <2>1, <4>1, <4>2, PriceOfDay
    <3> QED
      BY <3>1, <3>5, <3>6, <3>7, ActionKinds
  <2> QED
    BY <2>1, <2>2 DEF CSTypeOK, HoldingsFit, IsFine
<1> QED
  BY <1>1, SimulationHolds, PTL

\* When nothing is left, all that counts has been applied.
LEMMA AllDone ==
  ASSUME InputsFit, actions = {}
  PROVE  /\ CashDone = {e \in events : e.cash > 0 /\ InPeriod(e.cashDay)}
         /\ StockBefore(End + 1) = StockDone /\ SplitBefore(End + 1) = SplitDone
<1>1. Done = ActionsOf(events, splits)
  BY DEF Done
<1>2. /\ CashDone = {e \in events : e.cash > 0 /\ InPeriod(e.cashDay)}
      /\ StockDone = {e \in events : e.stock > 0 /\ InPeriod(e.stockDay)}
      /\ SplitDone = {s \in splits : s.num > 0 /\ InPeriod(s.day)}
  BY <1>1, ActionsOfEvents DEF CashDone, StockDone, SplitDone
<1>3. \A d \in Nat : Until(d, End + 1) <=> InPeriod(d)
  BY SimulatorAssumption DEF Until, InPeriod
<1>4. (\A e \in events : e.stockDay \in Nat) /\ \A s \in splits : s.day \in Nat
  BY InputsAreFinite
<1> QED
  BY <1>2, <1>3, <1>4 DEF StockBefore, SplitBefore

\* A simulation ends with what the holder of the base day would have: shares and cash of
\* each event, whatever the order and overlap of their days; reinvesting compares with it as
\* the prices of the days do with the end price; splits alone change nothing (simulate).
THEOREM SimulationsAreExact == CSSpec => []SimulationIsExact
<1>1. SimulationInvariant => SimulationIsExact
  <2> SUFFICES ASSUME SimulationInvariant, actions = {} PROVE SimulationIsExact
    BY DEF SimulationIsExact, TotalIsWhatAHolderGets, ReinvestingFollowsPrices,
           SplitsAloneLeaveMeasuresEqual
  <2>1. /\ InputsFit /\ HoldingsFit /\ SharesGrew /\ CashAdded
        /\ NoShares => MeasuresCompare
        /\ events = {} => SplitsKeepMeasures
    BY DEF SimulationInvariant
  <2>2. /\ CashDone = {e \in events : e.cash > 0 /\ InPeriod(e.cashDay)}
        /\ StockBefore(End + 1) = StockDone /\ SplitBefore(End + 1) = SplitDone
    BY <2>1, AllDone
  <2>3. TotalIsWhatAHolderGets
    <3>1. totalShares = HeldBefore(End + 1)
      BY <2>1, <2>2, GrownShares DEF HeldBefore
    <3> QED
      BY <2>1, <2>2, <3>1 DEF TotalIsWhatAHolderGets, CashAdded
  <2>4. ReinvestingFollowsPrices
    <3> SUFFICES ASSUME splits = {}, \A e \in events : e.stock = 0
                 PROVE  /\ (\A e \in CashDone : price[e.cashDay] = 0) => Reinvested = Held
                        /\ (\A e \in CashDone : price[e.cashDay] \in 0 .. price[End])
                                => Reinvested >= Held
                        /\ /\ \A e \in CashDone : price[e.cashDay] = 0 \/ price[e.cashDay] >= price[End]
                           /\ \A e, f \in CashDone : e = f
                           => Reinvested <= Held
      BY <2>2 DEF ReinvestingFollowsPrices, Reinvested, Held
    <3>1. MeasuresCompare
      BY <2>1 DEF NoShares
    <3>2. reinvestedShares = totalShares /\ reinvestedCash = totalCash => Reinvested = Held
      BY DEF Reinvested, Held
    <3> QED
      BY <3>1, <3>2 DEF MeasuresCompare
  <2>5. SplitsAloneLeaveMeasuresEqual
    BY <2>1 DEF SplitsAloneLeaveMeasuresEqual, SplitsKeepMeasures
  <2> QED
    BY <2>3, <2>4, <2>5 DEF SimulationIsExact
<1> QED
  BY <1>1, SimulationHolds, PTL

-----------------------------------------------------------------------------
(* The six calculations side by side, as the runs have them.               *)

\* Whichever calculation runs while the others rest, each of them follows its specification,
\* and so what is proved of it holds of the runs.
THEOREM CalculationsRun ==
  Spec => CPSpec /\ DRSpec /\ CBSpec /\ CSSpec /\ DBSpec /\ FSSpec
<1>1. Init => CPInit /\ DRInit /\ CBInit /\ CSInit /\ DBInit /\ FSInit
  BY DEF Init
<1>2. [Next]_vars => /\ [CPNext]_cpVars /\ [DRNext]_drVars /\ [CBNext]_cbVars
                     /\ [CSNext]_csVars /\ [DBNext]_dbVars /\ [FSNext]_fsVars
  BY DEF Next, vars
<1> QED
  BY <1>1, <1>2, PTL DEF Spec, CPSpec, DRSpec, CBSpec, CSSpec, DBSpec, FSSpec

\* The calculations have the types they are given.
THEOREM CalculationTypesCorrect == Spec => []CalculationTypes
<1>1. /\ CPTypeOK /\ DRTypeOK /\ CBTypeOK /\ CSTypeOK /\ DBTypeOK /\ FSTypeOK
      => CalculationTypes
  BY DEF CalculationTypes
<1> QED
  BY <1>1, CalculationsRun, ClosingsTypeCorrect, RecordsTypeCorrect, ReturnsTypeCorrect,
     SimulationTypeCorrect, BackfillTypeCorrect, StatementsTypeCorrect, PTL

\* All that the run checks of the six calculations holds for every value of the constants.
THEOREM CalculationsAreSound ==
  Spec => /\ [](/\ RecordsAreExact /\ BackfillIsComplete /\ SimulationIsExact
                /\ EpsErrorsFollowLapses)
          /\ DividendRowsAgree /\ ClosingsAreSound /\ StatementsKeepDetail
<1>1. Spec => []RecordsAreExact /\ []BackfillIsComplete /\ []SimulationIsExact /\ []EpsErrorsFollowLapses
  BY CalculationsRun, RecordsExact, BackfillsComplete, SimulationsAreExact, ErrorsFollowLapses
<1>2. Spec => DividendRowsAgree /\ ClosingsAreSound /\ StatementsKeepDetail
  BY CalculationsRun, RowsAgree, ClosingsSound, DetailsStay
<1> QED
  BY <1>1, <1>2, PTL
=============================================================================
