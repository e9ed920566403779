------------------------ MODULE ClosingPipelineProofs -----------------------
EXTENDS ClosingPipeline, SumLemmas, TLAPS

-----------------------------------------------------------------------------
(* The closings.                                                           *)

QuoteRows == [serial : Nat, of : 0 .. LastDay, avg : 0 .. LastDay]
CalculatedQuotes == [stock : Stocks, serial : Nat \ {0}, high : 0 .. LastDay]
Closings ==
    [pc : Stages \cup {"idle"}, day : 0 .. LastDay, full : BOOLEAN, traded : SUBSET Stocks,
     seen : 0 .. LastDay, calc : SUBSET CalculatedQuotes, clean : BOOLEAN]

\* The rows that are there have a serial number, and the price of their own day or of an
\* earlier one.
QuotesFit ==
    \A s \in Stocks, d \in Days :
        /\ quotes[<<s, d>>].serial = 0 => quotes[<<s, d>>] = NoRow
        /\ quotes[<<s, d>>].of <= d

\* What a closing has in hand; its records are one per stock.
ClosingFits(f) ==
    /\ f \in Closings
    /\ f.pc \notin {"idle", "history"} => f.day \in Days
    /\ f.pc = "replace" => f.traded # {}
    /\ \A p, q \in f.calc : p.stock = q.stock => p = q
    /\ f.clean => f.pc \notin {"idle", "history"}

TablesTyped ==
    /\ quotes \in [Stocks \X Days -> QuoteRows] /\ serial \in Nat \ {0}
    /\ lastQuotes \in [Stocks -> 0 .. LastDay] /\ lastPrice \in [Stocks -> 0 .. LastDay]
    /\ config \in [Keys -> 0 .. LastDay] /\ records \in [Stocks -> 0 .. LastDay]
    /\ fresh \subseteq Tables \X Days
    /\ runs \in 0 .. MaxRuns
    /\ QuotesFit

InHandFits ==
    /\ closing = [c \in Closers |-> closing[c]]
    /\ \A c \in Closers : ClosingFits(closing[c])

ClosingsTyped == TablesTyped /\ InHandFits

AfterEstimate == {"readDate", "saveDate", "yield", "money", "announce"}
AfterLast == AfterEstimate \cup {"estimate"}
AfterUpdate == AfterLast \cup {"records", "last"}
AfterMakeUp == AfterUpdate \cup {"average", "update"}
AfterCache == AfterMakeUp \cup {"readDay", "saveDay", "makeUp"}

Alone(c) == \A o \in Closers \ {c} : closing[o].pc = "idle"

\* What a closing that is alone and has had no failure has achieved by each of its steps.
Achieved(f) ==
    LET day == f.day IN
    /\ f.pc = "cache" => \A s \in Stocks : quotes[<<s, day>>].of = day => s \in f.traded
    /\ f.pc \in AfterCache => \A s \in Stocks :
            quotes[<<s, day>>].of = day => lastPrice[s] \in {0, day}
    /\ f.pc = "saveDay" => f.seen = config["last-closing-day"]
    /\ f.pc = "saveDate" => f.seen = config["estimate-date"]
    /\ f.pc \in AfterMakeUp => \A s \in Stocks, d \in Days :
            d <= day /\ HasRow(s, d) => HasRow(s, day)
    /\ f.pc = "update" => \A s \in Stocks : HasRow(s, day) =>
            \E q \in f.calc : q.stock = s /\ q.serial = quotes[<<s, day>>].serial
    /\ f.pc \in {"update", "records"} => \A q \in f.calc :
            q.high = 0 \/ q.high > records[q.stock]
    /\ f.pc \in AfterUpdate => \A s \in Stocks : HasRow(s, day) => quotes[<<s, day>>].avg = day
    /\ f.pc \in AfterLast => \A s \in Stocks, d \in Days : HasRow(s, d) =>
            /\ lastQuotes[s] \in Days
            /\ quotes[<<s, d>>].serial <= quotes[<<s, lastQuotes[s]>>].serial
    /\ f.pc \in AfterEstimate => <<"estimate", day>> \in fresh
    /\ f.pc \in {"money", "announce"} => <<"yield_rank", day>> \in fresh
    /\ f.pc = "announce" => <<"money_history", day>> \in fresh

\* Nobody works beside a closing that is clean, and it has achieved what its steps are for.
ClosingsInvariant ==
    /\ ClosingsTyped
    /\ \A c \in Closers : closing[c].clean => Alone(c) /\ Achieved(closing[c])

\* The order of the steps.
LEMMA StageOrder ==
  /\ NextStage["replace"] = "cache" /\ NextStage["cache"] = "readDay"
  /\ NextStage["readDay"] = "saveDay" /\ NextStage["saveDay"] = "makeUp"
  /\ NextStage["makeUp"] = "average" /\ NextStage["average"] = "update"
  /\ NextStage["update"] = "records" /\ NextStage["records"] = "last"
  /\ NextStage["last"] = "estimate" /\ NextStage["estimate"] = "readDate"
  /\ NextStage["readDate"] = "saveDate" /\ NextStage["saveDate"] = "yield"
  /\ NextStage["yield"] = "money" /\ NextStage["money"] = "announce"
BY DEF NextStage

\* The newest of some rows is one of them, and none has a higher serial.
LEMMA NewestIsNewest ==
  ASSUME ClosingsTyped, NEW s \in Stocks, NEW ds \in SUBSET Days, ds # {}
  PROVE  /\ NewestRow(s, ds) \in ds
         /\ \A e \in ds : quotes[<<s, e>>].serial <= quotes[<<s, NewestRow(s, ds)>>].serial
<1> DEFINE f == [e \in ds |-> quotes[<<s, e>>].serial]
<1>1. IsFiniteSet(ds)
  <2>1. IsFiniteSet(Days)
    BY FS_Interval, ClosingAssumption DEF Days
  <2> QED
    BY <2>1, FS_Subset
<1>2. \A e \in ds : f[e] = quotes[<<s, e>>].serial /\ f[e] \in Int
  BY DEF ClosingsTyped, TablesTyped, QuoteRows
<1> HIDE DEF f
<1>3. PICK d \in ds : \A e \in ds : quotes[<<s, e>>].serial <= quotes[<<s, d>>].serial
  <2>1. PICK d \in ds : \A e \in ds : f[e] <= f[d]
    BY <1>1, <1>2, SomeHighest
  <2> QED
    BY <1>2, <2>1
<1> QED
  BY <1>3 DEF NewestRow

\* One closing goes on and the others stay where they are.
LEMMA OneFits ==
  ASSUME ClosingsTyped, NEW c \in Closers, NEW f, ClosingFits(f),
         closing' = [closing EXCEPT ![c] = f]
  PROVE  /\ closing' = [b \in Closers |-> closing'[b]]
         /\ \A b \in Closers : ClosingFits(closing'[b])
         /\ closing'[c] = f /\ \A b \in Closers \ {c} : closing'[b] = closing[b]
<1>1. closing = [b \in Closers |-> closing[b]] /\ \A b \in Closers : ClosingFits(closing[b])
  BY DEF ClosingsTyped, InHandFits
<1>2. closing'[c] = f /\ \A b \in Closers \ {c} : closing'[b] = closing[b]
  BY <1>1
<1>3. closing' = [b \in Closers |-> closing'[b]]
  BY <1>1
<1> HIDE DEF ClosingFits
<1> QED
  BY <1>1, <1>2, <1>3

LEMMA IdleFits == ClosingFits(Idle)
BY ClosingAssumption DEF ClosingFits, Idle, Closings

\* The next stage of a closing, which is not the first.
LEMMA NextStageFits ==
  ASSUME NEW pc \in Stages \ {"announce", "history"}
  PROVE  NextStage[pc] \in Stages \ {"replace", "history"}
BY StageOrder DEF Stages

\* What the step Advance does.
Advanced(f) == [f EXCEPT !.pc = NextStage[f.pc]]

LEMMA AdvancedFits ==
  ASSUME NEW f, ClosingFits(f), f.pc \in Stages \ {"announce", "history"}
  PROVE  /\ ClosingFits(Advanced(f))
         /\ Advanced(f) = [pc |-> NextStage[f.pc], day |-> f.day, full |-> f.full,
                           traded |-> f.traded, seen |-> f.seen, calc |-> f.calc,
                           clean |-> f.clean]
<1>1. NextStage[f.pc] \in Stages \ {"replace", "history"}
  BY NextStageFits
<1>2. Advanced(f) = [pc |-> NextStage[f.pc], day |-> f.day, full |-> f.full,
                     traded |-> f.traded, seen |-> f.seen, calc |-> f.calc,
                     clean |-> f.clean]
  BY DEF Advanced, ClosingFits, Closings
<1> PICK stage : stage = NextStage[f.pc]
  OBVIOUS
<1>3. stage # "idle"
  BY <1>1 DEF Stages
<1>4. Advanced(f) \in Closings
  BY <1>1, <1>2 DEF ClosingFits, Closings
<1> QED
  BY <1>1, <1>2, <1>4 DEF ClosingFits, Stages

LEMMA AdvanceFits ==
  ASSUME ClosingsTyped, NEW c \in Closers, Advance(c),
         closing[c].pc \in Stages \ {"announce", "history"}
  PROVE  /\ ClosingFits(Advanced(closing[c]))
         /\ closing' = [closing EXCEPT ![c] = Advanced(closing[c])]
BY AdvancedFits DEF Advance, Advanced, ClosingsTyped, InHandFits

\* A closing takes a step: it suffices that its tables fit afterwards, and that it has
\* achieved what its next step relies on if it is still clean.
LEMMA StepKeeps ==
  ASSUME ClosingsInvariant, NEW c \in Closers, closing[c].pc # "idle",
         NEW f, ClosingFits(f), closing' = [closing EXCEPT ![c] = f],
         TablesTyped', f.clean => closing[c].clean /\ Achieved(f)'
  PROVE  ClosingsInvariant'
<1>1. /\ closing' = [b \in Closers |-> closing'[b]]
      /\ \A b \in Closers : ClosingFits(closing'[b])
      /\ closing'[c] = f /\ \A b \in Closers \ {c} : closing'[b] = closing[b]
  BY OneFits DEF ClosingsInvariant
<1>2. ClosingsTyped'
  BY <1>1 DEF ClosingsTyped, InHandFits, ClosingFits
<1>3. ASSUME NEW b \in Closers, closing'[b].clean
      PROVE  (Alone(b) /\ Achieved(closing[b]))'
  <2>1. CASE b = c
    <3>1. Alone(c)'
      BY <1>1, <1>3, <2>1 DEF ClosingsInvariant, Alone
    <3>2. Achieved(f)' /\ closing'[b] = f
      BY <1>1, <1>3, <2>1
    <3>3. Achieved(closing[b])'
      BY <3>2 DEF Achieved, HasRow
    <3> QED
      BY <2>1, <3>1, <3>3
  <2>2. CASE b # c
    BY <1>1, <1>3, <2>2 DEF ClosingsInvariant, Alone
  <2> QED
    BY <2>1, <2>2
<1> QED
  BY <1>2, <1>3 DEF ClosingsInvariant

\* A run that ends relies on nothing.
LEMMA EndKeeps ==
  ASSUME ClosingsInvariant, NEW c \in Closers, closing[c].pc # "idle",
         closing' = [closing EXCEPT ![c] = Idle], TablesTyped'
  PROVE  ClosingsInvariant'
<1> PICK f : f = Idle
  OBVIOUS
<1>1. ~f.clean /\ ClosingFits(f)
  BY IdleFits DEF Idle
<1> QED
  BY <1>1, StepKeeps

tables == <<quotes, serial, lastQuotes, lastPrice, config, records, fresh>>

\* A table of rows, by its keys.
LEMMA PairsTyped ==
  ASSUME NEW f, f = [sd \in Stocks \X Days |-> f[sd]],
         \A s \in Stocks, d \in Days : f[<<s, d>>] \in QuoteRows
  PROVE  f \in [Stocks \X Days -> QuoteRows]
<1>1. ASSUME NEW sd \in Stocks \X Days PROVE f[sd] \in QuoteRows
  <2> PICK s \in Stocks, d \in Days : sd = <<s, d>>
    OBVIOUS
  <2> QED
    OBVIOUS
<1> QED
  BY <1>1

LEMMA TablesStay ==
  ASSUME ClosingsInvariant, UNCHANGED tables, runs' \in 0 .. MaxRuns
  PROVE  TablesTyped'
BY DEF ClosingsInvariant, ClosingsTyped, TablesTyped, QuotesFit, tables

\* Everyone but the run that begins becomes unclean.
LEMMA UncleanFits ==
  ASSUME NEW f, ClosingFits(f), NEW g, g = [f EXCEPT !.clean = FALSE]
  PROVE  ClosingFits(g) /\ ~g.clean /\ g.pc = f.pc
<1>1. g \in Closings /\ g.pc = f.pc /\ g.day = f.day /\ g.traded = f.traded
      /\ g.calc = f.calc /\ g.clean = FALSE
  BY DEF ClosingFits, Closings
<1> QED
  BY <1>1 DEF ClosingFits

\* Someone begins.
LEMMA BeginKeeps ==
  ASSUME ClosingsInvariant, NEW c \in Closers, TablesTyped', NEW f, ClosingFits(f),
         closing' = [b \in Closers |-> IF b = c THEN f ELSE [closing[b] EXCEPT !.clean = FALSE]],
         f.clean => f.pc = "replace" /\ \A o \in Closers : At(o, "idle")
  PROVE  ClosingsInvariant'
<1>1. \A b \in Closers : ClosingFits(closing[b])
  BY DEF ClosingsInvariant, ClosingsTyped, InHandFits
<1>2. \A b \in Closers \ {c} : ClosingFits(closing'[b]) /\ ~closing'[b].clean
                               /\ closing'[b].pc = closing[b].pc
  <2> TAKE b \in Closers \ {c}
  <2>1. closing'[b] = [closing[b] EXCEPT !.clean = FALSE] /\ ClosingFits(closing[b])
    BY <1>1
  <2> QED
    BY <2>1, UncleanFits
<1>3. closing'[c] = f
  OBVIOUS
<1>4. InHandFits'
  <2>1. closing' = [b \in Closers |-> closing'[b]]
    OBVIOUS
  <2>2. \A b \in Closers : ClosingFits(closing'[b])
    BY <1>2, <1>3
  <2> QED
    BY <2>1, <2>2 DEF InHandFits, ClosingFits
<1>5. ASSUME NEW b \in Closers, closing'[b].clean
      PROVE  (Alone(b) /\ Achieved(closing[b]))'
  <2>1. b = c /\ f.clean
    BY <1>2, <1>3, <1>5
  <2>2. Alone(b)'
    BY <1>2, <2>1 DEF Alone, At
  <2>3. closing'[b].pc = "replace"
    BY <1>3, <2>1
  <2>4. Achieved(closing[b])'
    BY <2>3 DEF Achieved, AfterCache, AfterMakeUp, AfterUpdate, AfterLast, AfterEstimate
  <2> QED
    BY <2>2, <2>4
<1> QED
  BY <1>4, <1>5 DEF ClosingsInvariant, ClosingsTyped

LEMMA FetchKeeps ==
  ASSUME ClosingsInvariant, NEW c \in Closers, NEW d \in Days, NEW full \in BOOLEAN,
         NEW traded \in SUBSET Stocks, Fetch(c, d, full, traded)
  PROVE  ClosingsInvariant'
<1>1. runs \in 0 .. MaxRuns /\ MaxRuns \in Nat
  BY ClosingAssumption DEF ClosingsInvariant, ClosingsTyped, TablesTyped
<1>2. TablesTyped'
  <2>1. runs < MaxRuns /\ runs' = runs + 1
    BY DEF Fetch
  <2> QED
    <3>1. runs' \in 0 .. MaxRuns
      BY <1>1, <2>1
    <3> QED
      BY <3>1, TablesStay DEF Fetch, tables
<1> PICK i : i = Idle
  OBVIOUS
<1>0. i \in Closings /\ i.calc = {} /\ ~i.clean
  BY IdleFits DEF Idle, ClosingFits
<1> PICK alone \in BOOLEAN : alone = \A o \in Closers : At(o, "idle")
  OBVIOUS
<1> PICK f : f = [i EXCEPT !.pc = "replace", !.day = d, !.full = full, !.traded = traded,
                           !.clean = alone]
  OBVIOUS
<1>3. /\ f \in Closings /\ f.pc = "replace" /\ f.day = d /\ f.traded = traded /\ f.calc = {}
      /\ f.clean = alone
  <2>1. d \in 0 .. LastDay /\ "replace" \in Stages
    BY ClosingAssumption DEF Days, Stages
  <2> QED
    BY <1>0, <2>1 DEF Closings
<1>4. ClosingFits(f)
  BY <1>3 DEF ClosingFits, Fetch
<1>5. closing' = [b \in Closers |-> IF b = c THEN f ELSE [closing[b] EXCEPT !.clean = FALSE]]
  BY Zenon DEF Fetch
<1> QED
  BY <1>2, <1>3, <1>4, <1>5, BeginKeeps

LEMMA BeginHistoryKeeps ==
  ASSUME ClosingsInvariant, NEW c \in Closers, NEW symbols \in SUBSET Stocks,
         BeginHistory(c, symbols)
  PROVE  ClosingsInvariant'
<1>1. runs \in 0 .. MaxRuns /\ MaxRuns \in Nat
  BY ClosingAssumption DEF ClosingsInvariant, ClosingsTyped, TablesTyped
<1>2. TablesTyped'
  <2>1. runs' \in 0 .. MaxRuns
    BY <1>1 DEF BeginHistory
  <2> QED
    BY <2>1, TablesStay DEF BeginHistory, tables
<1> PICK i : i = Idle
  OBVIOUS
<1>0. i \in Closings /\ i.calc = {} /\ ~i.clean
  BY IdleFits DEF Idle, ClosingFits
<1> PICK f : f = [i EXCEPT !.pc = "history", !.traded = symbols]
  OBVIOUS
<1>3. f \in Closings /\ f.pc = "history" /\ f.calc = {} /\ ~f.clean
  BY <1>0 DEF Closings, Stages
<1>4. ClosingFits(f)
  BY <1>3 DEF ClosingFits
<1>5. closing' = [b \in Closers |-> IF b = c THEN f ELSE [closing[b] EXCEPT !.clean = FALSE]]
  BY DEF BeginHistory
<1> QED
  BY <1>2, <1>3, <1>4, <1>5, BeginKeeps

LEMMA HistoryKeeps ==
  ASSUME ClosingsInvariant, NEW c \in Closers, NEW s \in Stocks, NEW listed \in SUBSET Days,
         InsertMissing(c, s, listed)
  PROVE  ClosingsInvariant'
<1> DEFINE gaps == Gaps(s, listed)
<1>1. closing[c] \in Closings /\ closing[c].pc = "history" /\ ~closing[c].clean
      /\ closing = [b \in Closers |-> closing[b]]
  BY DEF InsertMissing, At, ClosingsInvariant, ClosingsTyped, InHandFits, ClosingFits
<1>2. TablesTyped'
  <2>1. gaps \in SUBSET Days /\ IsFiniteSet(gaps)
    <3>1. IsFiniteSet(Days)
      BY FS_Interval, ClosingAssumption DEF Days
    <3> QED
      BY <3>1, FS_Subset DEF Gaps
  <2>2. Cardinality(gaps) \in Nat
    BY <2>1, FS_CardinalityType
  <2>3. \A d \in gaps : Cardinality(gaps \cap 1 .. d) \in Nat
    BY <2>1, FS_CardinalityType, FS_Intersection
  <2> HIDE DEF gaps
  <2>4. serial \in Nat \ {0} /\ quotes \in [Stocks \X Days -> QuoteRows] /\ fresh \subseteq Tables \X Days
    BY DEF ClosingsInvariant, ClosingsTyped, TablesTyped
  <2>5. quotes' = [sd \in Stocks \X Days |->
                        IF sd[1] = s /\ sd[2] \in gaps
                        THEN [serial |-> serial + Cardinality(gaps \cap 1 .. sd[2]),
                              of |-> sd[2], avg |-> 0]
                        ELSE quotes[sd]]
        /\ serial' = serial + Cardinality(gaps) /\ fresh' = fresh \ (Tables \X gaps)
    BY DEF InsertMissing, gaps
  <2>6. \A t \in Stocks, d \in Days : quotes'[<<t, d>>] =
            IF t = s /\ d \in gaps
            THEN [serial |-> serial + Cardinality(gaps \cap 1 .. d), of |-> d, avg |-> 0]
            ELSE quotes[<<t, d>>]
    BY <2>5
  <2>7. \A t \in Stocks, d \in Days : quotes'[<<t, d>>] \in QuoteRows
    <3> SUFFICES ASSUME NEW t \in Stocks, NEW d \in Days PROVE quotes'[<<t, d>>] \in QuoteRows
      OBVIOUS
    <3>1. CASE t = s /\ d \in gaps
      <4>1. quotes'[<<t, d>>] =
              [serial |-> serial + Cardinality(gaps \cap 1 .. d), of |-> d, avg |-> 0]
        BY <2>6, <3>1
      <4>2. serial + Cardinality(gaps \cap 1 .. d) \in Nat
        BY <2>3, <2>4, <3>1
      <4> QED
        BY <4>1, <4>2, ClosingAssumption DEF QuoteRows, Days
    <3>2. CASE ~(t = s /\ d \in gaps)
      BY <2>4, <2>6, <3>2
    <3> QED
      BY <3>1, <3>2
  <2>8. quotes' \in [Stocks \X Days -> QuoteRows]
    BY <2>5, <2>7, PairsTyped
  <2>9. QuotesFit'
    <3>1. QuotesFit
      BY DEF ClosingsInvariant, ClosingsTyped, TablesTyped
    <3>2. ASSUME NEW t \in Stocks, NEW d \in Days
          PROVE  /\ quotes'[<<t, d>>].serial = 0 => quotes'[<<t, d>>] = NoRow
                 /\ quotes'[<<t, d>>].of <= d
      <4>1. CASE t = s /\ d \in gaps
        <5>1. quotes'[<<t, d>>] = [serial |-> serial + Cardinality(gaps \cap 1 .. d), of |-> d, avg |-> 0]
          BY <2>6, <4>1
        <5> QED
          BY <2>3, <2>4, <4>1, <5>1 DEF Days
      <4>2. CASE ~(t = s /\ d \in gaps)
        BY <2>6, <3>1, <4>2 DEF QuotesFit
      <4> QED
        BY <4>1, <4>2
    <3> QED
      BY <3>2 DEF QuotesFit
  <2>10. serial' \in Nat \ {0}
    BY <2>2, <2>4, <2>5
  <2> QED
    BY <2>4, <2>5, <2>8, <2>9, <2>10
    DEF InsertMissing, TablesTyped, ClosingsInvariant, ClosingsTyped
<1>3. CASE closing[c].traded = {s}
  <2>1. closing' = [closing EXCEPT ![c] = Idle]
    BY <1>3 DEF InsertMissing
  <2> QED
    BY <1>1, <1>2, <2>1, EndKeeps
<1>4. CASE closing[c].traded # {s}
  <2> PICK f : f = [closing[c] EXCEPT !.traded = @ \ {s}]
    OBVIOUS
  <2>1. f \in Closings /\ f.pc = "history" /\ f.calc = closing[c].calc /\ ~f.clean
    BY <1>1 DEF Closings
  <2>2. closing' = [closing EXCEPT ![c] = f]
    BY <1>1, <1>4 DEF InsertMissing
  <2>3. ClosingFits(closing[c])
    BY DEF ClosingsInvariant, ClosingsTyped, InHandFits
  <2>4. ClosingFits(f)
    BY <2>1, <2>3 DEF ClosingFits
  <2> QED
    BY <1>1, <1>2, <2>1, <2>2, <2>4, StepKeeps
<1> QED
  BY <1>3, <1>4

-----------------------------------------------------------------------------
(* The steps of aggregate, in their order.                                 *)

\* What the action Advance leaves in hand.
LEMMA Onward ==
  ASSUME ClosingsInvariant, NEW c \in Closers, Advance(c),
         closing[c].pc \in Stages \ {"announce", "history"},
         NEW f, f = Advanced(closing[c])
  PROVE  /\ ClosingFits(f) /\ closing' = [closing EXCEPT ![c] = f]
         /\ f.pc = NextStage[closing[c].pc] /\ f.day = closing[c].day
         /\ f.full = closing[c].full /\ f.traded = closing[c].traded
         /\ f.seen = closing[c].seen /\ f.calc = closing[c].calc
         /\ f.clean = closing[c].clean
<1>1. ClosingFits(closing[c]) /\ ClosingsTyped
  BY DEF ClosingsInvariant, ClosingsTyped, InHandFits
<1> QED
  BY <1>1, AdvancedFits, AdvanceFits

LEMMA ClosingTypes ==
  ASSUME ClosingsInvariant, NEW c \in Closers
  PROVE  /\ ClosingFits(closing[c]) /\ TablesTyped
         /\ closing = [b \in Closers |-> closing[b]]
         /\ closing[c].pc \notin {"idle", "history"} => closing[c].day \in Days
         /\ closing[c].clean => Achieved(closing[c])
         /\ closing[c] \in Closings
BY DEF ClosingsInvariant, ClosingsTyped, InHandFits, ClosingFits

LEMMA ReplaceKeeps ==
  ASSUME ClosingsInvariant, NEW c \in Closers, ReplaceQuotes(c)
  PROVE  ClosingsInvariant'
<1> PICK f : f = Advanced(closing[c])
  OBVIOUS
<1>1. closing[c].pc = "replace" /\ closing[c].day \in Days
  BY ClosingTypes DEF ReplaceQuotes, At
<1>2. /\ ClosingFits(f) /\ closing' = [closing EXCEPT ![c] = f] /\ f.pc = "cache"
      /\ f.day = closing[c].day /\ f.traded = closing[c].traded /\ f.clean = closing[c].clean
  BY <1>1, Onward, StageOrder DEF ReplaceQuotes, Stages
<1> PICK day : day = closing[c].day
  OBVIOUS
<1> PICK traded : traded = closing[c].traded
  OBVIOUS
<1>3. /\ serial' = serial + 1 /\ fresh' = fresh \ (Tables \X {day})
      /\ quotes' = [sd \in Stocks \X Days |->
                        IF sd[2] # day THEN quotes[sd]
                        ELSE IF sd[1] \in traded
                             THEN [serial |-> serial', of |-> sd[2], avg |-> 0]
                             ELSE NoRow]
      /\ UNCHANGED <<lastQuotes, lastPrice, config, records, runs>>
  BY DEF ReplaceQuotes
<1>4. \A s \in Stocks, d \in Days : quotes'[<<s, d>>] =
            IF d # day THEN quotes[<<s, d>>]
            ELSE IF s \in traded THEN [serial |-> serial + 1, of |-> d, avg |-> 0] ELSE NoRow
  BY <1>3
<1>5. TablesTyped /\ serial \in Nat \ {0} /\ quotes \in [Stocks \X Days -> QuoteRows]
  BY ClosingTypes DEF TablesTyped
<1>6. ASSUME NEW s \in Stocks, NEW d \in Days
      PROVE  /\ quotes'[<<s, d>>] \in QuoteRows
             /\ quotes'[<<s, d>>].serial = 0 => quotes'[<<s, d>>] = NoRow
             /\ quotes'[<<s, d>>].of <= d
  <2>1. d \in 0 .. LastDay /\ d >= 0 /\ LastDay \in Nat
    BY ClosingAssumption DEF Days
  <2>2. CASE d # day
    BY <1>4, <1>5, <2>2 DEF TablesTyped, QuotesFit
  <2>3. CASE d = day /\ s \in traded
    <3>1. quotes'[<<s, d>>] = [serial |-> serial + 1, of |-> d, avg |-> 0]
      BY <1>4, <2>3
    <3> QED
      BY <1>5, <2>1, <3>1 DEF QuoteRows
  <2>4. CASE d = day /\ s \notin traded
    <3>1. quotes'[<<s, d>>] = NoRow
      BY <1>4, <2>4
    <3> QED
      BY <2>1, <3>1 DEF QuoteRows, NoRow
  <2> QED
    BY <2>2, <2>3, <2>4
<1>7. TablesTyped'
  <2>1. quotes' \in [Stocks \X Days -> QuoteRows]
    <3>1. quotes' = [sd \in Stocks \X Days |-> quotes'[sd]]
      BY <1>3
    <3> QED
      BY <1>6, <3>1, PairsTyped
  <2>2. QuotesFit'
    BY <1>6 DEF QuotesFit
  <2> QED
    BY <1>3, <1>5, <2>1, <2>2 DEF TablesTyped
<1>8. Achieved(f)'
  <2>1. ASSUME NEW s \in Stocks, quotes'[<<s, day>>].of = day PROVE s \in traded
    <3>1. day \in Days /\ day # 0
      BY <1>1 DEF Days
    <3>2. s \notin traded => quotes'[<<s, day>>] = NoRow
      BY <1>4, <3>1
    <3> QED
      BY <2>1, <3>1, <3>2 DEF NoRow
  <2> QED
    BY <1>2, <2>1
    DEF Achieved, AfterCache, AfterMakeUp, AfterUpdate, AfterLast, AfterEstimate
<1> QED
  BY <1>1, <1>2, <1>7, <1>8, StepKeeps

LEMMA CacheKeeps ==
  ASSUME ClosingsInvariant, NEW c \in Closers, CacheLastPrices(c)
  PROVE  ClosingsInvariant'
<1>1. closing[c].pc = "cache" /\ closing[c].day \in Days /\ closing[c] \in Closings
  BY ClosingTypes DEF CacheLastPrices, At
<1> PICK f : f = [closing[c] EXCEPT !.traded = {}, !.pc = "readDay"]
  OBVIOUS
<1>2. /\ f \in Closings /\ f.pc = "readDay" /\ f.day = closing[c].day /\ f.calc = closing[c].calc
      /\ f.clean = closing[c].clean
  BY <1>1 DEF Closings, Stages
<1>3. ClosingFits(f) /\ closing' = [closing EXCEPT ![c] = f]
  <2>1. ClosingFits(closing[c])
    BY ClosingTypes
  <2>2. ClosingFits(f)
    BY <1>1, <1>2, <2>1 DEF ClosingFits
  <2>3. closing' = [closing EXCEPT ![c].traded = {}, ![c].pc = NextStage[@]]
    BY DEF CacheLastPrices
  <2> QED
    BY <1>1, <2>2, <2>3, ClosingTypes, StageOrder DEF Closings
<1>4. lastPrice' = [s \in Stocks |->
                        IF s \in closing[c].traded /\ lastPrice[s] # 0
                        THEN closing[c].day ELSE lastPrice[s]]
      /\ UNCHANGED <<quotes, serial, lastQuotes, config, records, fresh, runs>>
  BY DEF CacheLastPrices
<1>5. TablesTyped'
  <2>1. closing[c].day \in 0 .. LastDay
    BY <1>1 DEF Closings
  <2> QED
    BY <1>4, <2>1, ClosingTypes DEF TablesTyped, QuotesFit
<1>6. ASSUME closing[c].clean PROVE Achieved(f)'
  <2>1. \A s \in Stocks : quotes[<<s, closing[c].day>>].of = closing[c].day => s \in closing[c].traded
    BY <1>1, <1>6, ClosingTypes DEF Achieved
  <2>2. \A s \in Stocks : quotes'[<<s, f.day>>].of = f.day => lastPrice'[s] \in {0, f.day}
    BY <1>2, <1>4, <2>1
  <2> QED
    BY <1>2, <2>2
    DEF Achieved, AfterCache, AfterMakeUp, AfterUpdate, AfterLast, AfterEstimate
<1> QED
  BY <1>1, <1>2, <1>3, <1>5, <1>6, StepKeeps

\* A step that only reads a date, and one that only saves it.
LEMMA ReadKeeps ==
  ASSUME ClosingsInvariant, NEW c \in Closers, NEW stage \in {"readDay", "readDate"},
         ReadDate(c, stage)
  PROVE  ClosingsInvariant'
<1>1. closing[c].pc = stage /\ closing[c].day \in Days /\ closing[c] \in Closings
  BY ClosingTypes DEF ReadDate, At
<1> PICK key \in Keys : key = IF stage = "readDay" THEN "last-closing-day" ELSE "estimate-date"
  BY DEF Keys
<1> PICK f : f = [closing[c] EXCEPT !.seen = config[key], !.pc = NextStage[stage]]
  OBVIOUS
<1>2. config[key] \in 0 .. LastDay /\ TablesTyped
  BY ClosingTypes DEF TablesTyped
<1>3. /\ f \in Closings /\ f.pc = (IF stage = "readDay" THEN "saveDay" ELSE "saveDate")
      /\ f.day = closing[c].day /\ f.traded = closing[c].traded /\ f.calc = closing[c].calc
      /\ f.clean = closing[c].clean /\ f.seen = config[key]
  <2>1. NextStage[stage] = IF stage = "readDay" THEN "saveDay" ELSE "saveDate"
    BY StageOrder
  <2>2. NextStage[stage] \in Stages
    BY <2>1 DEF Stages
  <2> QED
    BY <1>1, <1>2, <2>1, <2>2 DEF Closings
<1>4. ClosingFits(f) /\ closing' = [closing EXCEPT ![c] = f]
  <2>1. ClosingFits(closing[c])
    BY ClosingTypes
  <2>2. ClosingFits(f)
    BY <1>1, <1>3, <2>1 DEF ClosingFits
  <2>3. closing' = [closing EXCEPT ![c].seen = config[key], ![c].pc = NextStage[@]]
    BY DEF ReadDate
  <2> QED
    BY <1>1, <2>2, <2>3, ClosingTypes DEF Closings
<1>5. UNCHANGED <<quotes, serial, lastQuotes, lastPrice, config, records, fresh, runs>>
  BY DEF ReadDate
<1>6. TablesTyped'
  BY <1>2, <1>5 DEF TablesTyped, QuotesFit
<1>7. ASSUME closing[c].clean PROVE Achieved(f)'
  <2>1. Achieved(closing[c])
    BY <1>7, ClosingTypes
  <2> QED
    BY <1>1, <1>3, <1>5, <2>1
    DEF Achieved, HasRow, AfterCache, AfterMakeUp, AfterUpdate, AfterLast, AfterEstimate
<1> QED
  BY <1>1, <1>3, <1>4, <1>6, <1>7, StepKeeps

LEMMA SaveKeeps ==
  ASSUME ClosingsInvariant, NEW c \in Closers, NEW stage \in {"saveDay", "saveDate"},
         SaveDate(c, stage)
  PROVE  ClosingsInvariant'
<1>1. closing[c].pc = stage /\ closing[c].day \in Days /\ closing[c] \in Closings
  BY ClosingTypes DEF SaveDate, At
<1>2. closing[c].day \in 0 .. LastDay /\ TablesTyped
  BY <1>1, ClosingTypes DEF Closings
<1>3. config' \in [Keys -> 0 .. LastDay]
      /\ UNCHANGED <<quotes, serial, lastQuotes, lastPrice, records, fresh, runs>>
  <2>1. config \in [Keys -> 0 .. LastDay]
    BY <1>2 DEF TablesTyped
  <2>2. PICK key : config' = IF ShouldUpdateDate(closing[c].seen, closing[c].day)
                             THEN [config EXCEPT ![key] = closing[c].day]
                             ELSE config
    BY DEF SaveDate
  <2>3. UNCHANGED <<quotes, serial, lastQuotes, lastPrice, records, fresh, runs>>
    BY DEF SaveDate
  <2> QED
    BY <1>2, <2>1, <2>2, <2>3
<1>4. TablesTyped'
  BY <1>2, <1>3 DEF TablesTyped, QuotesFit
<1>5. CASE ~closing[c].full
  <2>1. closing' = [closing EXCEPT ![c] = Idle]
    BY <1>5 DEF SaveDate
  <2> QED
    BY <1>1, <1>4, <2>1, EndKeeps
<1>6. CASE closing[c].full
  <2> PICK f : f = [closing[c] EXCEPT !.seen = 0, !.pc = NextStage[stage]]
    OBVIOUS
  <2>1. /\ f \in Closings /\ f.pc = (IF stage = "saveDay" THEN "makeUp" ELSE "yield")
        /\ f.day = closing[c].day /\ f.traded = closing[c].traded /\ f.calc = closing[c].calc
        /\ f.clean = closing[c].clean
    <3>1. NextStage[stage] = IF stage = "saveDay" THEN "makeUp" ELSE "yield"
      BY StageOrder
    <3>2. NextStage[stage] \in Stages /\ 0 \in 0 .. LastDay
      BY <3>1, ClosingAssumption DEF Stages
    <3> QED
      BY <1>1, <3>1, <3>2 DEF Closings
  <2>2. ClosingFits(f) /\ closing' = [closing EXCEPT ![c] = f]
    <3>1. ClosingFits(closing[c])
      BY ClosingTypes
    <3>2. ClosingFits(f)
      BY <1>1, <2>1, <3>1 DEF ClosingFits
    <3>3. closing' = [closing EXCEPT ![c].seen = 0, ![c].pc = NextStage[@]]
      BY <1>6 DEF SaveDate
    <3> QED
      BY <1>1, <3>2, <3>3, ClosingTypes DEF Closings
  <2>3. ASSUME closing[c].clean PROVE Achieved(f)'
    <3>1. Achieved(closing[c])
      BY <2>3, ClosingTypes
    <3> QED
      BY <1>1, <1>3, <2>1, <3>1
      DEF Achieved, HasRow, AfterCache, AfterMakeUp, AfterUpdate, AfterLast, AfterEstimate
  <2> QED
    BY <1>1, <1>4, <2>1, <2>2, <2>3, StepKeeps
<1> QED
  BY <1>5, <1>6

LEMMA MakeUpKeeps ==
  ASSUME ClosingsInvariant, NEW c \in Closers, MakeUpQuotes(c)
  PROVE  ClosingsInvariant'
<1> PICK f : f = Advanced(closing[c])
  OBVIOUS
<1>1. closing[c].pc = "makeUp" /\ closing[c].day \in Days
  BY ClosingTypes DEF MakeUpQuotes, At
<1>2. /\ ClosingFits(f) /\ closing' = [closing EXCEPT ![c] = f] /\ f.pc = "average"
      /\ f.day = closing[c].day /\ f.clean = closing[c].clean
  BY <1>1, Onward, StageOrder DEF MakeUpQuotes, Stages
<1> PICK day \in Days : day = closing[c].day
  BY <1>1
<1> DEFINE Earlier(s) == {d \in RowDays(s) : d < day}
<1> PICK lacking : lacking = {s \in Stocks : ~HasRow(s, day) /\ Earlier(s) # {}}
  OBVIOUS
<1>3. /\ serial' = (IF lacking = {} THEN serial ELSE serial + 1)
      /\ quotes' = [sd \in Stocks \X Days |->
                IF sd[2] = day /\ sd[1] \in lacking
                THEN [quotes[<<sd[1], NewestRow(sd[1], Earlier(sd[1]))>>]
                        EXCEPT !.serial = serial']
                ELSE quotes[sd]]
      /\ fresh' = (IF lacking = {} THEN fresh ELSE fresh \ (Tables \X {day}))
      /\ UNCHANGED <<lastQuotes, lastPrice, config, records, runs>>
  BY DEF MakeUpQuotes
<1>4. TablesTyped /\ serial \in Nat \ {0} /\ quotes \in [Stocks \X Days -> QuoteRows]
  BY ClosingTypes DEF TablesTyped
<1>5. \A s \in Stocks, d \in Days : ~(d = day /\ s \in lacking) =>
            quotes'[<<s, d>>] = quotes[<<s, d>>]
  BY <1>3
<1>6. ASSUME NEW s \in lacking
      PROVE  /\ quotes'[<<s, day>>] \in QuoteRows
             /\ quotes'[<<s, day>>].serial # 0 /\ quotes'[<<s, day>>].of < day
  <2>1. s \in Stocks /\ Earlier(s) \in SUBSET Days /\ Earlier(s) # {}
    BY DEF RowDays
  <2>2. PICK e \in Earlier(s) : e = NewestRow(s, Earlier(s))
    <3>1. ClosingsTyped
      BY DEF ClosingsInvariant
    <3> HIDE DEF Earlier
    <3> QED
      BY <2>1, <3>1, NewestIsNewest
  <2>3. serial' \in Nat \ {0}
    BY <1>3, <1>4
  <2>4. quotes'[<<s, day>>] = [quotes[<<s, e>>] EXCEPT !.serial = serial']
    BY <1>3, <2>1, <2>2
  <2>5. e \in Days /\ e < day /\ quotes[<<s, e>>] \in QuoteRows /\ quotes[<<s, e>>].of <= e
    BY <1>4, <2>1 DEF TablesTyped, QuotesFit
  <2> PICK row : row = [quotes[<<s, e>>] EXCEPT !.serial = serial']
    OBVIOUS
  <2>6. row \in QuoteRows /\ row.serial = serial' /\ row.of = quotes[<<s, e>>].of
    BY <2>3, <2>5 DEF QuoteRows
  <2>7. row.of < day
    <3>1. row.of \in Int /\ e \in Int /\ day \in Int
      BY <2>5, <2>6 DEF QuoteRows, Days
    <3> QED
      BY <2>5, <2>6, <3>1
  <2> QED
    BY <2>3, <2>4, <2>6, <2>7
<1> HIDE DEF Earlier
<1>7. ASSUME NEW s \in Stocks, NEW d \in Days
      PROVE  /\ quotes'[<<s, d>>] \in QuoteRows
             /\ quotes'[<<s, d>>].serial = 0 => quotes'[<<s, d>>] = NoRow
             /\ quotes'[<<s, d>>].of <= d
  <2>1. CASE d = day /\ s \in lacking
    <3>1. quotes'[<<s, d>>].of \in Int /\ d \in Int
      BY <1>6, <2>1 DEF QuoteRows, Days
    <3> QED
      BY <1>6, <2>1, <3>1
  <2>2. CASE ~(d = day /\ s \in lacking)
    BY <1>4, <1>5, <2>2 DEF TablesTyped, QuotesFit
  <2> QED
    BY <2>1, <2>2
<1>8. TablesTyped'
  <2>1. quotes' \in [Stocks \X Days -> QuoteRows]
    <3>1. quotes' = [sd \in Stocks \X Days |-> quotes'[sd]]
      BY <1>3
    <3> QED
      BY <1>7, <3>1, PairsTyped
  <2>2. QuotesFit'
    BY <1>7 DEF QuotesFit
  <2> QED
    BY <1>3, <1>4, <2>1, <2>2 DEF TablesTyped
<1>9. ASSUME closing[c].clean PROVE Achieved(f)'
  <2>1. Achieved(closing[c])
    BY <1>9, ClosingTypes
  <2>2. ASSUME NEW s \in Stocks, quotes'[<<s, day>>].of = day PROVE lastPrice'[s] \in {0, day}
    <3>1. s \notin lacking
      BY <1>6, <2>2 DEF Days
    <3>2. quotes[<<s, day>>].of = day
      BY <1>5, <2>2, <3>1
    <3> QED
      BY <1>1, <1>3, <2>1, <3>2 DEF Achieved, AfterCache
  <2>3. ASSUME NEW s \in Stocks, NEW d \in Days, d <= day, quotes'[<<s, d>>].serial # 0
        PROVE  quotes'[<<s, day>>].serial # 0
    <3>1. CASE s \in lacking
      BY <1>6, <3>1
    <3>2. CASE s \notin lacking
      <4>1. quotes'[<<s, d>>] = quotes[<<s, d>>] /\ quotes'[<<s, day>>] = quotes[<<s, day>>]
        BY <1>5, <3>2
      <4>2. CASE d = day
        BY <2>3, <4>2
      <4>3. CASE d # day
        <5>1. d \in Earlier(s)
          BY <2>3, <4>1, <4>3 DEF Earlier, RowDays, HasRow, Days
        <5> QED
          BY <3>2, <4>1, <5>1 DEF HasRow
      <4> QED
        BY <4>2, <4>3
    <3> QED
      BY <3>1, <3>2
  <2> QED
    BY <1>2, <2>2, <2>3
    DEF Achieved, HasRow, AfterCache, AfterMakeUp, AfterUpdate, AfterLast, AfterEstimate
<1> QED
  BY <1>1, <1>2, <1>8, <1>9, StepKeeps

LEMMA AverageKeeps ==
  ASSUME ClosingsInvariant, NEW c \in Closers, NEW failed \in SUBSET Stocks,
         NEW unrated \in SUBSET Stocks, CalculateAverages(c, failed, unrated)
  PROVE  ClosingsInvariant'
<1>1. closing[c].pc = "average" /\ closing[c].day \in Days /\ closing[c] \in Closings
  BY ClosingTypes DEF CalculateAverages, At
<1> PICK day \in Days : day = closing[c].day
  BY <1>1
<1> DEFINE Calculated(s) ==
      [stock |-> s, serial |-> quotes[<<s, day>>].serial,
       high |-> IF ShouldUpdateHistory(records[s], quotes[<<s, day>>].of, s \notin unrated)
                THEN quotes[<<s, day>>].of ELSE 0]
<1> PICK calc : calc = {Calculated(s) : s \in {s \in Stocks \ failed : HasRow(s, day)}}
  OBVIOUS
<1> PICK clean \in BOOLEAN : clean = (closing[c].clean /\ failed = {})
  OBVIOUS
<1> PICK f : f = [closing[c] EXCEPT !.calc = calc, !.clean = clean, !.pc = "update"]
  OBVIOUS
<1>2. closing' = [closing EXCEPT ![c].calc = calc, ![c].clean = @ /\ failed = {},
                                 ![c].pc = NextStage[@]]
      /\ UNCHANGED <<quotes, serial, lastQuotes, lastPrice, config, records, fresh, runs>>
  BY Zenon DEF CalculateAverages
<1>3. TablesTyped /\ quotes \in [Stocks \X Days -> QuoteRows]
      /\ records \in [Stocks -> 0 .. LastDay]
  BY ClosingTypes DEF TablesTyped
<1>4. \A q \in calc : q \in CalculatedQuotes
  <2> SUFFICES ASSUME NEW s \in Stocks, HasRow(s, day) PROVE Calculated(s) \in CalculatedQuotes
    OBVIOUS
  <2>1. quotes[<<s, day>>] \in QuoteRows /\ quotes[<<s, day>>].serial # 0
    BY <1>3 DEF HasRow
  <2> QED
    BY <2>1, ClosingAssumption DEF CalculatedQuotes, QuoteRows
<1>5. \A q \in calc : /\ q.serial = quotes[<<q.stock, day>>].serial /\ q = Calculated(q.stock)
                      /\ q.high = 0 \/ q.high > records[q.stock]
  <2> TAKE q \in calc
  <2>1. PICK s \in Stocks : q = Calculated(s)
    OBVIOUS
  <2>2. /\ q.stock = s /\ q.serial = quotes[<<s, day>>].serial
        /\ q.high = IF ShouldUpdateHistory(records[s], quotes[<<s, day>>].of, s \notin unrated)
                    THEN quotes[<<s, day>>].of ELSE 0
    BY <2>1
  <2>3. quotes[<<s, day>>].of \in Nat /\ records[s] \in Nat
    BY <1>3, ClosingAssumption DEF QuoteRows
  <2>4. q.high = 0 \/ q.high > records[s]
    BY <2>2, <2>3 DEF ShouldUpdateHistory
  <2> QED
    BY <2>1, <2>2, <2>4
<1>6. failed = {} => \A s \in Stocks : HasRow(s, day) =>
        \E q \in calc : q.stock = s /\ q.serial = quotes[<<s, day>>].serial
  <2> SUFFICES ASSUME failed = {}, NEW s \in Stocks, HasRow(s, day)
               PROVE  \E q \in calc : q.stock = s /\ q.serial = quotes[<<s, day>>].serial
    OBVIOUS
  <2>1. Calculated(s) \in calc
    OBVIOUS
  <2> QED
    BY <2>1
<1> HIDE DEF Calculated
<1>7. /\ f \in Closings /\ f.pc = "update" /\ f.day = day /\ f.calc = calc /\ f.clean = clean
  BY <1>1, <1>4 DEF Closings, Stages
<1>8. ClosingFits(f)
  <2>1. \A p, q \in calc : p.stock = q.stock => p = q
    BY <1>5
  <2> QED
    BY <1>7, <2>1 DEF ClosingFits
<1>9. closing' = [closing EXCEPT ![c] = f]
  <2>1. closing' = [closing EXCEPT ![c].calc = calc, ![c].clean = clean, ![c].pc = NextStage[@]]
    BY <1>1, <1>2, ClosingTypes, Zenon
  <2> QED
    BY <1>1, <2>1, ClosingTypes, StageOrder DEF Closings
<1>10. TablesTyped'
  BY <1>2, <1>3 DEF TablesTyped, QuotesFit
<1>11. ASSUME clean PROVE Achieved(f)'
  <2>1. Achieved(closing[c]) /\ failed = {}
    BY <1>11, ClosingTypes
  <2>2. /\ \A s \in Stocks : quotes'[<<s, day>>].of = day => lastPrice'[s] \in {0, day}
        /\ \A s \in Stocks, d \in Days :
              d <= day /\ quotes'[<<s, d>>].serial # 0 => quotes'[<<s, day>>].serial # 0
        /\ \A q \in calc : q.high = 0 \/ q.high > records'[q.stock]
        /\ \A s \in Stocks : quotes'[<<s, day>>].serial # 0 =>
              \E q \in calc : q.stock = s /\ q.serial = quotes'[<<s, day>>].serial
    <3>1. \A s \in Stocks : quotes[<<s, day>>].of = day => lastPrice[s] \in {0, day}
      BY <1>1, <2>1 DEF Achieved, AfterCache, AfterMakeUp
    <3>2. \A s \in Stocks, d \in Days : d <= day /\ HasRow(s, d) => HasRow(s, day)
      BY <1>1, <2>1 DEF Achieved, AfterMakeUp
    <3> QED
      BY <1>2, <1>5, <1>6, <2>1, <3>1, <3>2 DEF HasRow
  <2> QED
    BY <1>7, <2>2
    DEF Achieved, HasRow, AfterCache, AfterMakeUp, AfterUpdate, AfterLast, AfterEstimate
<1> QED
  BY <1>1, <1>7, <1>8, <1>9, <1>10, <1>11, StepKeeps

LEMMA UpdateKeeps ==
  ASSUME ClosingsInvariant, NEW c \in Closers, UpdateAverages(c)
  PROVE  ClosingsInvariant'
<1> PICK f : f = Advanced(closing[c])
  OBVIOUS
<1>1. closing[c].pc = "update" /\ closing[c].day \in Days
  BY ClosingTypes DEF UpdateAverages, At
<1>2. /\ ClosingFits(f) /\ closing' = [closing EXCEPT ![c] = f] /\ f.pc = "records"
      /\ f.day = closing[c].day /\ f.clean = closing[c].clean /\ f.calc = closing[c].calc
  BY <1>1, Onward, StageOrder DEF UpdateAverages, Stages
<1> PICK day \in Days : day = closing[c].day
  BY <1>1
<1> PICK calc : calc = closing[c].calc
  OBVIOUS
<1>3. /\ quotes' = [sd \in Stocks \X Days |->
                    IF \E q \in calc : q.stock = sd[1] /\ q.serial = quotes[sd].serial
                    THEN [quotes[sd] EXCEPT !.avg = day] ELSE quotes[sd]]
      /\ UNCHANGED <<serial, lastQuotes, lastPrice, config, records, fresh, runs>>
  BY DEF UpdateAverages
<1>4. TablesTyped /\ quotes \in [Stocks \X Days -> QuoteRows] /\ QuotesFit
  BY ClosingTypes DEF TablesTyped
<1>5. \A q \in calc : q \in CalculatedQuotes /\ q.serial # 0
  BY ClosingTypes DEF Closings, CalculatedQuotes
<1>6. ASSUME NEW s \in Stocks, NEW d \in Days
      PROVE  /\ quotes'[<<s, d>>] \in QuoteRows
             /\ quotes'[<<s, d>>].serial = quotes[<<s, d>>].serial
             /\ quotes'[<<s, d>>].of = quotes[<<s, d>>].of
             /\ quotes[<<s, d>>].serial = 0 => quotes'[<<s, d>>] = quotes[<<s, d>>]
             /\ (\E q \in calc : q.stock = s /\ q.serial = quotes[<<s, d>>].serial)
                  => quotes'[<<s, d>>].avg = day
             /\ quotes'[<<s, d>>].avg \in {quotes[<<s, d>>].avg, day}
  <2> PICK row : row = [quotes[<<s, d>>] EXCEPT !.avg = day]
    OBVIOUS
  <2>1. row \in QuoteRows /\ row.serial = quotes[<<s, d>>].serial /\ row.of = quotes[<<s, d>>].of
        /\ row.avg = day
    <3>1. quotes[<<s, d>>] \in QuoteRows /\ day \in 0 .. LastDay
      BY <1>4, ClosingAssumption DEF Days
    <3> QED
      BY <3>1 DEF QuoteRows
  <2>2. quotes'[<<s, d>>] = IF \E q \in calc : q.stock = s /\ q.serial = quotes[<<s, d>>].serial
                            THEN row ELSE quotes[<<s, d>>]
    BY <1>3
  <2>3. quotes[<<s, d>>] \in QuoteRows
    BY <1>4
  <2> QED
    BY <1>5, <2>1, <2>2, <2>3
<1>7. TablesTyped'
  <2>1. quotes' \in [Stocks \X Days -> QuoteRows]
    <3>1. quotes' = [sd \in Stocks \X Days |-> quotes'[sd]]
      BY <1>3
    <3> QED
      BY <1>6, <3>1, PairsTyped
  <2>2. QuotesFit'
    BY <1>4, <1>6 DEF QuotesFit
  <2> QED
    BY <1>3, <1>4, <2>1, <2>2 DEF TablesTyped
<1>8. ASSUME closing[c].clean PROVE Achieved(f)'
  <2>1. Achieved(closing[c])
    BY <1>8, ClosingTypes
  <2>2. /\ \A s \in Stocks : quotes[<<s, day>>].of = day => lastPrice[s] \in {0, day}
        /\ \A s \in Stocks, d \in Days : d <= day /\ HasRow(s, d) => HasRow(s, day)
        /\ \A q \in calc : q.high = 0 \/ q.high > records[q.stock]
        /\ \A s \in Stocks : HasRow(s, day) =>
              \E q \in calc : q.stock = s /\ q.serial = quotes[<<s, day>>].serial
    BY <1>1, <2>1 DEF Achieved, AfterCache, AfterMakeUp
  <2>3. /\ \A s \in Stocks : quotes'[<<s, day>>].of = day => lastPrice'[s] \in {0, day}
        /\ \A s \in Stocks, d \in Days :
              d <= day /\ quotes'[<<s, d>>].serial # 0 => quotes'[<<s, day>>].serial # 0
        /\ \A q \in calc : q.high = 0 \/ q.high > records'[q.stock]
        /\ \A s \in Stocks : quotes'[<<s, day>>].serial # 0 => quotes'[<<s, day>>].avg = day
    BY <1>3, <1>6, <2>2 DEF HasRow
  <2> QED
    BY <1>2, <2>3
    DEF Achieved, HasRow, AfterCache, AfterMakeUp, AfterUpdate, AfterLast, AfterEstimate
<1> QED
  BY <1>1, <1>2, <1>7, <1>8, StepKeeps

LEMMA RecordsKeep ==
  ASSUME ClosingsInvariant, NEW c \in Closers, NEW saved \in SUBSET Stocks,
         SaveRecords(c, saved)
  PROVE  ClosingsInvariant'
<1>1. closing[c].pc = "records" /\ closing[c].day \in Days /\ closing[c] \in Closings
  BY ClosingTypes DEF SaveRecords, At
<1> PICK clean \in BOOLEAN : clean = (closing[c].clean /\ saved = Changed(c))
  OBVIOUS
<1> PICK f : f = [closing[c] EXCEPT !.calc = {}, !.clean = clean, !.pc = "last"]
  OBVIOUS
<1>2. /\ f \in Closings /\ f.pc = "last" /\ f.day = closing[c].day /\ f.calc = {}
      /\ f.clean = clean
  BY <1>1 DEF Closings, Stages
<1>3. ClosingFits(f) /\ closing' = [closing EXCEPT ![c] = f]
  <2>1. ClosingFits(f)
    BY <1>1, <1>2 DEF ClosingFits
  <2>2. closing' = [closing EXCEPT ![c].calc = {}, ![c].clean = @ /\ saved = Changed(c),
                                   ![c].pc = NextStage[@]]
    BY Zenon DEF SaveRecords
  <2> QED
    BY <1>1, <2>1, <2>2, ClosingTypes, StageOrder DEF Closings
<1>4. UNCHANGED <<quotes, serial, lastQuotes, lastPrice, config, fresh, runs>>
  BY DEF SaveRecords
<1>5. records' \in [Stocks -> 0 .. LastDay]
  <2>1. \A q \in closing[c].calc : q \in CalculatedQuotes
    BY <1>1 DEF Closings
  <2>2. records \in [Stocks -> 0 .. LastDay]
    BY ClosingTypes DEF TablesTyped
  <2>3. ASSUME NEW s \in Stocks, NEW q \in closing[c].calc, q.stock = s
        PROVE  (CHOOSE p \in closing[c].calc : p.stock = s).high \in 0 .. LastDay
    BY <2>1, <2>3 DEF CalculatedQuotes
  <2> QED
    BY <2>2, <2>3 DEF SaveRecords, Changed
<1>6. TablesTyped'
  BY <1>4, <1>5, ClosingTypes DEF TablesTyped, QuotesFit
<1>7. ASSUME closing[c].clean PROVE Achieved(f)'
  <2>1. Achieved(closing[c])
    BY <1>7, ClosingTypes
  <2> QED
    BY <1>1, <1>2, <1>4, <2>1
    DEF Achieved, HasRow, AfterCache, AfterMakeUp, AfterUpdate, AfterLast, AfterEstimate
<1> QED
  BY <1>1, <1>2, <1>3, <1>6, <1>7, StepKeeps

LEMMA FailureLogged ==
  ASSUME ClosingsInvariant, NEW c \in Closers, LogFailure(c)
  PROVE  ClosingsInvariant'
<1>1. closing[c].pc = "update" /\ closing[c].day \in Days /\ closing[c] \in Closings
  BY ClosingTypes DEF LogFailure, At
<1> PICK clean : clean = FALSE
  OBVIOUS
<1> PICK f : f = [closing[c] EXCEPT !.clean = clean, !.pc = "records"]
  OBVIOUS
<1>2. /\ f \in Closings /\ f.pc = "records" /\ f.day = closing[c].day
      /\ f.calc = closing[c].calc /\ ~f.clean
  BY <1>1 DEF Closings, Stages
<1>3. ClosingFits(f)
  <2>1. ClosingFits(closing[c])
    BY ClosingTypes
  <2> QED
    BY <1>1, <1>2, <2>1 DEF ClosingFits
<1>4. closing' = [closing EXCEPT ![c] = f]
  <2>1. closing' = [closing EXCEPT ![c].clean = FALSE, ![c].pc = NextStage[@]]
    BY DEF LogFailure
  <2> QED
    BY <1>1, <2>1, ClosingTypes, StageOrder DEF Closings
<1>5. TablesTyped'
  BY ClosingTypes DEF LogFailure, TablesTyped, QuotesFit
<1> QED
  BY <1>1, <1>2, <1>3, <1>4, <1>5, StepKeeps

LEMMA RebuildKeeps ==
  ASSUME ClosingsInvariant, NEW c \in Closers, RebuildLastQuotes(c)
  PROVE  ClosingsInvariant'
<1> PICK f : f = Advanced(closing[c])
  OBVIOUS
<1>1. closing[c].pc = "last" /\ closing[c].day \in Days
  BY ClosingTypes DEF RebuildLastQuotes, At
<1>2. /\ ClosingFits(f) /\ closing' = [closing EXCEPT ![c] = f] /\ f.pc = "estimate"
      /\ f.day = closing[c].day /\ f.clean = closing[c].clean
  BY <1>1, Onward, StageOrder DEF RebuildLastQuotes, Stages
<1>3. /\ lastQuotes' = [s \in Stocks |->
                          IF RowDays(s) = {} THEN 0 ELSE NewestRow(s, RowDays(s))]
      /\ UNCHANGED <<quotes, serial, lastPrice, config, records, fresh, runs>>
  BY DEF RebuildLastQuotes
<1>4. ASSUME NEW s \in Stocks
      PROVE  /\ lastQuotes'[s] \in 0 .. LastDay
             /\ \A d \in Days : HasRow(s, d) =>
                  /\ lastQuotes'[s] \in Days
                  /\ quotes[<<s, d>>].serial <= quotes[<<s, lastQuotes'[s]>>].serial
  <2> PICK ds \in SUBSET Days : ds = RowDays(s)
    BY DEF RowDays
  <2> PICK last : last = lastQuotes'[s]
    OBVIOUS
  <2>1. ds # {} => /\ last \in ds
                   /\ \A e \in ds : quotes[<<s, e>>].serial <= quotes[<<s, last>>].serial
    <3>1. ClosingsTyped
      BY DEF ClosingsInvariant
    <3>2. ASSUME ds # {} PROVE last = NewestRow(s, ds)
      BY <1>3, <3>2
    <3>3. ASSUME ds # {}
          PROVE  /\ NewestRow(s, ds) \in ds
                 /\ \A e \in ds : quotes[<<s, e>>].serial <= quotes[<<s, NewestRow(s, ds)>>].serial
      BY <3>1, <3>3, NewestIsNewest
    <3> QED
      BY <3>2, <3>3
  <2>2. ds = {} => last = 0
    BY <1>3
  <2>3. LastDay \in Nat /\ \A d \in Days : d \in 0 .. LastDay
    BY ClosingAssumption DEF Days
  <2> QED
    BY <2>1, <2>2, <2>3 DEF RowDays
<1>5. TablesTyped'
  BY <1>3, <1>4, ClosingTypes DEF TablesTyped, QuotesFit
<1>6. ASSUME closing[c].clean PROVE Achieved(f)'
  <2>1. Achieved(closing[c])
    BY <1>6, ClosingTypes
  <2> QED
    BY <1>1, <1>2, <1>3, <1>4, <2>1
    DEF Achieved, HasRow, AfterCache, AfterMakeUp, AfterUpdate, AfterLast, AfterEstimate
<1> QED
  BY <1>1, <1>2, <1>5, <1>6, StepKeeps

LEMMA TableKeeps ==
  ASSUME ClosingsInvariant, NEW c \in Closers, NEW stage \in {"estimate", "yield", "money"},
         RebuildTable(c, stage)
  PROVE  ClosingsInvariant'
<1> PICK f : f = Advanced(closing[c])
  OBVIOUS
<1>1. closing[c].pc = stage /\ closing[c].day \in Days
  BY ClosingTypes DEF RebuildTable, At
<1>2. /\ ClosingFits(f) /\ closing' = [closing EXCEPT ![c] = f]
      /\ f.pc = (IF stage = "estimate" THEN "readDate"
                 ELSE IF stage = "yield" THEN "money" ELSE "announce")
      /\ f.day = closing[c].day /\ f.clean = closing[c].clean
  BY <1>1, Onward, StageOrder DEF RebuildTable, Stages
<1> PICK table \in Tables : table = IF stage = "estimate" THEN "estimate"
                                    ELSE IF stage = "yield" THEN "yield_rank"
                                    ELSE "money_history"
  BY DEF Tables
<1>3. /\ fresh' = fresh \cup {<<table, closing[c].day>>}
      /\ UNCHANGED <<quotes, serial, lastQuotes, lastPrice, config, records, runs>>
  BY DEF RebuildTable
<1>4. TablesTyped'
  <2>1. fresh' \subseteq Tables \X Days
    BY <1>1, <1>3, ClosingTypes DEF TablesTyped
  <2> QED
    BY <1>3, <2>1, ClosingTypes DEF TablesTyped, QuotesFit
<1>5. ASSUME closing[c].clean PROVE Achieved(f)'
  <2>1. Achieved(closing[c])
    BY <1>5, ClosingTypes
  <2> QED
    BY <1>1, <1>2, <1>3, <2>1
    DEF Achieved, HasRow, AfterCache, AfterMakeUp, AfterUpdate, AfterLast, AfterEstimate
<1> QED
  BY <1>1, <1>2, <1>4, <1>5, StepKeeps

LEMMA EndingKeeps ==
  ASSUME ClosingsInvariant, NEW c \in Closers, Announce(c) \/ Fail(c)
  PROVE  ClosingsInvariant'
<1>1. closing[c].pc # "idle"
  BY DEF Announce, Fail, At, Stages
<1>2. TablesTyped'
  BY ClosingTypes DEF Announce, Fail, TablesTyped, QuotesFit
<1>3. closing' = [closing EXCEPT ![c] = Idle]
  BY DEF Announce, Fail
<1> QED
  BY <1>1, <1>2, <1>3, EndKeeps

LEMMA RestartKeeps ==
  ASSUME ClosingsInvariant, Restart
  PROVE  ClosingsInvariant'
<1>1. TablesTyped'
  BY DEF ClosingsInvariant, ClosingsTyped, TablesTyped, QuotesFit, Restart
<1>2. closing' = [c \in Closers |-> Idle]
  BY DEF Restart
<1>3. InHandFits'
  BY <1>2, IdleFits DEF InHandFits, ClosingFits
<1>4. \A c \in Closers : ~closing'[c].clean
  BY <1>2 DEF Idle
<1> QED
  BY <1>1, <1>3, <1>4 DEF ClosingsInvariant, ClosingsTyped

LEMMA ClosingsStart == CPInit => ClosingsInvariant
<1> SUFFICES ASSUME CPInit PROVE ClosingsInvariant
  OBVIOUS
<1>0. LastDay \in Nat \ {0} /\ MaxRuns \in Nat /\ 1 \in 0 .. LastDay /\ 0 \in 0 .. LastDay
  BY ClosingAssumption
<1>1. \A s \in Stocks, d \in Days :
        quotes[<<s, d>>] = IF d = 1 THEN [serial |-> 1, of |-> 1, avg |-> 1] ELSE NoRow
  BY DEF CPInit
<1>2. \A s \in Stocks, d \in Days :
        /\ quotes[<<s, d>>] \in QuoteRows
        /\ quotes[<<s, d>>].serial = 0 => quotes[<<s, d>>] = NoRow
        /\ quotes[<<s, d>>].of <= d
  <2> SUFFICES ASSUME NEW s \in Stocks, NEW d \in Days
               PROVE  /\ quotes[<<s, d>>] \in QuoteRows
                      /\ quotes[<<s, d>>].serial = 0 => quotes[<<s, d>>] = NoRow
                      /\ quotes[<<s, d>>].of <= d
    OBVIOUS
  <2>1. d \in Nat /\ d >= 1
    BY <1>0 DEF Days
  <2>2. CASE d = 1
    <3>1. quotes[<<s, d>>] = [serial |-> 1, of |-> 1, avg |-> 1]
      BY <1>1, <2>2
    <3> QED
      BY <1>0, <2>1, <3>1 DEF QuoteRows
  <2>3. CASE d # 1
    <3>1. quotes[<<s, d>>] = NoRow
      BY <1>1, <2>3
    <3> QED
      BY <1>0, <2>1, <3>1 DEF QuoteRows, NoRow
  <2> QED
    BY <2>2, <2>3
<1>3. quotes \in [Stocks \X Days -> QuoteRows]
  <2>1. quotes = [sd \in Stocks \X Days |-> quotes[sd]]
    BY DEF CPInit
  <2> QED
    BY <1>2, <2>1, PairsTyped
<1>4. fresh \subseteq Tables \X Days
  BY <1>0 DEF CPInit, Days
<1>5. TablesTyped
  <2>1. serial \in Nat \ {0} /\ runs \in 0 .. MaxRuns
    BY <1>0 DEF CPInit
  <2>2. /\ lastQuotes \in [Stocks -> 0 .. LastDay] /\ lastPrice \in [Stocks -> 0 .. LastDay]
        /\ config \in [Keys -> 0 .. LastDay] /\ records \in [Stocks -> 0 .. LastDay]
    BY <1>0 DEF CPInit
  <2> QED
    BY <1>2, <1>3, <1>4, <2>1, <2>2 DEF TablesTyped, QuotesFit
<1>6. InHandFits /\ \A c \in Closers : ~closing[c].clean
  BY IdleFits DEF CPInit, InHandFits, Idle
<1> QED
  BY <1>5, <1>6 DEF ClosingsInvariant, ClosingsTyped

LEMMA ClosingsKeep == ClosingsInvariant /\ [CPNext]_cpVars => ClosingsInvariant'
<1> SUFFICES ASSUME ClosingsInvariant, [CPNext]_cpVars PROVE ClosingsInvariant'
  OBVIOUS
<1>1. CASE UNCHANGED cpVars
  <2>1. UNCHANGED tables /\ closing' = closing /\ runs' = runs
    BY <1>1 DEF cpVars, tables
  <2>2. TablesTyped'
    BY <2>1 DEF tables, ClosingsInvariant, ClosingsTyped, TablesTyped, QuotesFit
  <2>3. InHandFits'
    BY <2>1 DEF ClosingsInvariant, ClosingsTyped, InHandFits, ClosingFits
  <2>4. ASSUME NEW c \in Closers, Alone(c), Achieved(closing[c])
        PROVE  (Alone(c) /\ Achieved(closing[c]))'
    BY <2>1, <2>4 DEF Alone, Achieved, HasRow, tables
  <2> QED
    BY <2>1, <2>2, <2>3, <2>4 DEF ClosingsInvariant, ClosingsTyped
<1>2. CASE Restart
  BY <1>2, RestartKeeps
<1>3. ASSUME NEW c \in Closers, CPStep(c) PROVE ClosingsInvariant'
  BY <1>3, FetchKeeps, BeginHistoryKeeps, HistoryKeeps, ReplaceKeeps, CacheKeeps, MakeUpKeeps,
     ReadKeeps, SaveKeeps, AverageKeeps, UpdateKeeps, RecordsKeep, FailureLogged, RebuildKeeps,
     TableKeeps, EndingKeeps DEF CPStep
<1> QED
  BY <1>1, <1>2, <1>3 DEF CPNext

\* CPTypeOK, for any days, stocks, closings and restarts.
THEOREM ClosingsTypeCorrect == CPSpec => []CPTypeOK
<1>1. ClosingsInvariant => CPTypeOK
  <2> SUFFICES ASSUME ClosingsInvariant PROVE CPTypeOK
    OBVIOUS
  <2>1. TablesTyped /\ \A c \in Closers : closing[c] \in Closings
    BY DEF ClosingsInvariant, ClosingsTyped, InHandFits, ClosingFits
  <2>2. \A c \in Closers : \A q \in closing[c].calc : q.stock \in Stocks /\ q.serial \in Nat \ {0}
    BY <2>1 DEF Closings, CalculatedQuotes
  <2> QED
    BY <2>1, <2>2 DEF CPTypeOK, TablesTyped, QuoteRows, Closings
<1> QED
  BY <1>1, ClosingsStart, ClosingsKeep, PTL DEF CPSpec

\* What a clean closing announces is consistent.
LEMMA AnnouncementsFit == ClosingsInvariant => AnnouncedDayIsConsistent
<1> SUFFICES ASSUME ClosingsInvariant, NEW c \in Closers, closing[c].pc = "announce",
                    closing[c].clean, NEW day, day = closing[c].day
             PROVE  /\ \A s \in Stocks :
                        LET past == {d \in Days : d <= day /\ quotes[<<s, d>>] # NoRow} IN
                        /\ past # {} => day \in past /\ quotes[<<s, day>>].avg = day
                        /\ past # {} => \A d \in Days :
                              quotes[<<s, d>>].serial <= quotes[<<s, lastQuotes[s]>>].serial
                        /\ quotes[<<s, day>>].of = day => lastPrice[s] \in {0, day}
                    /\ Tables \X {day} \subseteq fresh
  BY DEF AnnouncedDayIsConsistent
<1>1. day \in Days /\ TablesTyped /\ Achieved(closing[c])
  BY ClosingTypes
<1>2. quotes \in [Stocks \X Days -> QuoteRows] /\ QuotesFit
  BY <1>1 DEF TablesTyped
<1>3. \A s \in Stocks, d \in Days : HasRow(s, d) <=> quotes[<<s, d>>] # NoRow
  <2>1. NoRow.serial = 0
    BY DEF NoRow
  <2> QED
    BY <1>2, <2>1 DEF HasRow, QuotesFit
<1>4. \A s \in Stocks, d \in Days : d <= day /\ HasRow(s, d) => HasRow(s, day)
  BY <1>1 DEF Achieved, AfterMakeUp, AfterUpdate, AfterLast, AfterEstimate
<1>5. \A s \in Stocks : HasRow(s, day) => quotes[<<s, day>>].avg = day
  BY <1>1 DEF Achieved, AfterUpdate, AfterLast, AfterEstimate
<1>6. \A s \in Stocks, d \in Days : HasRow(s, d) =>
        /\ lastQuotes[s] \in Days
        /\ quotes[<<s, d>>].serial <= quotes[<<s, lastQuotes[s]>>].serial
  BY <1>1 DEF Achieved, AfterLast, AfterEstimate
<1>7. \A s \in Stocks : quotes[<<s, day>>].of = day => lastPrice[s] \in {0, day}
  BY <1>1 DEF Achieved, AfterCache, AfterMakeUp, AfterUpdate, AfterLast, AfterEstimate
<1>8. Tables \X {day} \subseteq fresh
  BY <1>1 DEF Achieved, AfterEstimate, Tables
<1>9. ASSUME NEW s \in Stocks, NEW e \in Days, e <= day, quotes[<<s, e>>] # NoRow
      PROVE  /\ day <= day /\ quotes[<<s, day>>] # NoRow /\ quotes[<<s, day>>].avg = day
             /\ \A d \in Days : quotes[<<s, d>>].serial <= quotes[<<s, lastQuotes[s]>>].serial
  <2>1. HasRow(s, e) /\ HasRow(s, day)
    BY <1>1, <1>3, <1>4, <1>9
  <2>2. day <= day /\ quotes[<<s, day>>] # NoRow /\ quotes[<<s, day>>].avg = day
    BY <1>1, <1>3, <1>5, <2>1 DEF Days
  <2>3. lastQuotes[s] \in Days
    BY <1>6, <2>1
  <2>4. quotes[<<s, lastQuotes[s]>>].serial \in Nat
    BY <1>2, <2>3 DEF QuoteRows
  <2>5. ASSUME NEW d \in Days
        PROVE  quotes[<<s, d>>].serial <= quotes[<<s, lastQuotes[s]>>].serial
    BY <1>6, <2>4 DEF HasRow
  <2> QED
    BY <2>2, <2>5
<1> QED
  BY <1>1, <1>7, <1>8, <1>9

\* A day that has quotes keeps having quotes.
LEMMA QuotesStay ==
  ASSUME ClosingsInvariant, [CPNext]_cpVars, NEW d \in Days, NEW s \in Stocks,
         quotes[<<s, d>>] # NoRow
  PROVE  \E t \in Stocks : quotes'[<<t, d>>] # NoRow
<1>1. /\ quotes \in [Stocks \X Days -> QuoteRows] /\ QuotesFit /\ serial \in Nat \ {0}
      /\ LastDay \in Nat
  BY ClosingAssumption DEF ClosingsInvariant, ClosingsTyped, TablesTyped
<1>2. quotes[<<s, d>>].serial # 0
  BY <1>1 DEF QuotesFit
<1>3. CASE UNCHANGED quotes
  BY <1>3
<1>4. ASSUME NEW c \in Closers, ReplaceQuotes(c)
      PROVE  \E t \in Stocks : quotes'[<<t, d>>] # NoRow
  <2>1. CASE closing[c].day = d
    <3>1. closing[c].traded \in SUBSET Stocks /\ closing[c].traded # {}
      BY <1>4, ClosingTypes DEF ReplaceQuotes, At, ClosingFits, Closings
    <3>2. PICK t \in Stocks : t \in closing[c].traded
      BY <3>1
    <3>3. quotes'[<<t, d>>] = [serial |-> serial + 1, of |-> d, avg |-> 0]
      BY <1>4, <2>1, <3>2 DEF ReplaceQuotes
    <3>4. quotes'[<<t, d>>].of # 0
      BY <1>1, <3>3 DEF Days
    <3> QED
      BY <3>4 DEF NoRow
  <2>2. CASE closing[c].day # d
    <3>1. quotes'[<<s, d>>] = quotes[<<s, d>>]
      BY <1>4, <2>2 DEF ReplaceQuotes
    <3> QED
      BY <3>1
  <2> QED
    BY <2>1, <2>2
<1>5. ASSUME NEW c \in Closers, NEW t \in Stocks, NEW listed \in SUBSET Days,
             InsertMissing(c, t, listed)
      PROVE  \E u \in Stocks : quotes'[<<u, d>>] # NoRow
  <2>1. ~(s = t /\ d \in Gaps(t, listed))
    BY <1>2 DEF Gaps, HasRow
  <2>2. quotes'[<<s, d>>] = quotes[<<s, d>>]
    BY <1>5, <2>1 DEF InsertMissing
  <2> QED
    BY <2>2
<1>6. ASSUME NEW c \in Closers, MakeUpQuotes(c)
      PROVE  \E u \in Stocks : quotes'[<<u, d>>] # NoRow
  <2>1. ~(closing[c].day = d /\ ~HasRow(s, closing[c].day))
    BY <1>2 DEF HasRow
  <2>2. quotes'[<<s, d>>] = quotes[<<s, d>>]
    BY <1>6, <2>1 DEF MakeUpQuotes
  <2> QED
    BY <2>2
<1>7. ASSUME NEW c \in Closers, UpdateAverages(c)
      PROVE  \E u \in Stocks : quotes'[<<u, d>>] # NoRow
  <2> PICK row : row = [quotes[<<s, d>>] EXCEPT !.avg = closing[c].day]
    OBVIOUS
  <2>1. row.serial = quotes[<<s, d>>].serial
    <3>1. quotes[<<s, d>>] \in QuoteRows
      BY <1>1
    <3> QED
      BY <3>1 DEF QuoteRows
  <2>2. quotes'[<<s, d>>] \in {row, quotes[<<s, d>>]}
    BY <1>7 DEF UpdateAverages
  <2> QED
    BY <1>2, <2>1, <2>2 DEF NoRow
<1>8. ASSUME NEW c \in Closers, NEW saved \in SUBSET Stocks, SaveRecords(c, saved)
      PROVE  UNCHANGED quotes
  BY <1>8, Zenon DEF SaveRecords
<1>9. ASSUME NEW c \in Closers, NEW failed \in SUBSET Stocks, NEW unrated \in SUBSET Stocks,
             CalculateAverages(c, failed, unrated)
      PROVE  UNCHANGED quotes
  BY <1>9, Zenon DEF CalculateAverages
<1>10. CASE CPNext
  BY <1>3, <1>4, <1>5, <1>6, <1>7, <1>8, <1>9, <1>10
  DEF CPNext, CPStep, Restart, Fetch, BeginHistory, CacheLastPrices, ReadDate, SaveDate,
      LogFailure, RebuildLastQuotes, RebuildTable, Announce, Fail
<1> QED
  BY <1>3, <1>10 DEF cpVars

\* A date goes back only if a run saves it that overlaps another.
LEMMA DatesStay ==
  ASSUME ClosingsInvariant, [CPNext]_cpVars, NEW k \in Keys, config'[k] < config[k]
  PROVE  \E c \in Closers : closing[c].pc \in {"saveDay", "saveDate"} /\ ~closing[c].clean
<1>1. config \in [Keys -> 0 .. LastDay]
  BY DEF ClosingsInvariant, ClosingsTyped, TablesTyped
<1>2. config[k] \in Int
  BY <1>1
<1>3. CASE UNCHANGED config
  BY <1>2, <1>3
<1>4. ASSUME NEW c \in Closers, NEW stage \in {"saveDay", "saveDate"}, SaveDate(c, stage)
      PROVE  \E b \in Closers : closing[b].pc \in {"saveDay", "saveDate"} /\ ~closing[b].clean
  <2>1. closing[c].pc = stage /\ closing[c] \in Closings
    BY <1>4, ClosingTypes DEF SaveDate, At
  <2> PICK key \in Keys : key = IF stage = "saveDay" THEN "last-closing-day" ELSE "estimate-date"
    BY DEF Keys
  <2>2. config' = IF ShouldUpdateDate(closing[c].seen, closing[c].day)
                  THEN [config EXCEPT ![key] = closing[c].day] ELSE config
    BY <1>4 DEF SaveDate
  <2>3. closing[c].seen \in Int /\ closing[c].day \in Int
    BY <2>1 DEF Closings
  <2>4. closing[c].clean => closing[c].seen = config[key]
    BY <2>1, ClosingTypes DEF Achieved
  <2>5. k = key /\ closing[c].day > closing[c].seen /\ config'[k] = closing[c].day
    BY <1>1, <1>2, <2>2 DEF ShouldUpdateDate
  <2> QED
    BY <1>2, <2>1, <2>3, <2>4, <2>5
<1>5. CASE CPNext
  <2>1. ASSUME NEW c \in Closers, CPStep(c)
        PROVE  UNCHANGED config \/ \E stage \in {"saveDay", "saveDate"} : SaveDate(c, stage)
    BY <2>1
    DEF CPStep, Fetch, BeginHistory, InsertMissing, ReplaceQuotes, MakeUpQuotes,
        UpdateAverages, CacheLastPrices, ReadDate, CalculateAverages, SaveRecords, LogFailure,
        RebuildLastQuotes, RebuildTable, Announce, Fail
  <2> QED
    BY <1>3, <1>4, <1>5, <2>1 DEF CPNext, Restart
<1> QED
  BY <1>3, <1>5 DEF cpVars

\* A record is narrowed only if a run saves it that overlaps another.
LEMMA RecordsStay ==
  ASSUME ClosingsInvariant, [CPNext]_cpVars, NEW s \in Stocks, records'[s] < records[s]
  PROVE  \E c \in Closers : closing[c].pc = "records" /\ ~closing[c].clean
<1>1. records \in [Stocks -> 0 .. LastDay]
  BY DEF ClosingsInvariant, ClosingsTyped, TablesTyped
<1>2. records[s] \in Int
  BY <1>1
<1>3. CASE UNCHANGED records
  BY <1>2, <1>3
<1>4. ASSUME NEW c \in Closers, NEW saved \in SUBSET Stocks, SaveRecords(c, saved)
      PROVE  \E b \in Closers : closing[b].pc = "records" /\ ~closing[b].clean
  <2>1. closing[c].pc = "records" /\ closing[c] \in Closings /\ ClosingFits(closing[c])
    BY <1>4, ClosingTypes DEF SaveRecords, At
  <2> PICK changed : changed = Changed(c)
    OBVIOUS
  <2>2. /\ saved \subseteq changed
        /\ records' = [u \in Stocks |->
                IF u \in saved THEN (CHOOSE p \in closing[c].calc : p.stock = u).high
                ELSE records[u]]
    BY <1>4, Zenon DEF SaveRecords
  <2>3. s \in saved
    BY <1>2, <2>2
  <2>4. PICK q \in closing[c].calc : q.stock = s /\ q.high # 0
    BY <2>2, <2>3 DEF Changed
  <2>5. q = CHOOSE p \in closing[c].calc : p.stock = s
    BY <2>1, <2>4 DEF ClosingFits
  <2>6. records'[s] = q.high
    BY <2>2, <2>3, <2>5
  <2>7. closing[c].clean => q.high > records[s]
    BY <2>1, <2>4, ClosingTypes DEF Achieved
  <2>8. q.high \in Int
    BY <2>1, <2>4 DEF Closings, CalculatedQuotes
  <2> QED
    BY <1>2, <2>1, <2>6, <2>7, <2>8
<1>5. CASE CPNext
  <2>1. ASSUME NEW c \in Closers, CPStep(c)
        PROVE  UNCHANGED records \/ \E saved \in SUBSET Stocks : SaveRecords(c, saved)
    BY <2>1
    DEF CPStep, Fetch, BeginHistory, InsertMissing, ReplaceQuotes, MakeUpQuotes,
        UpdateAverages, CacheLastPrices, ReadDate, SaveDate, CalculateAverages, LogFailure,
        RebuildLastQuotes, RebuildTable, Announce, Fail
  <2> QED
    BY <1>3, <1>4, <1>5, <2>1 DEF CPNext, Restart
<1> QED
  BY <1>3, <1>5 DEF cpVars

\* ClosingsAreSound, for any days, stocks, closings and restarts: what an undisturbed
\* closing announces is consistent in all tables, and no step loses quotes, records or a
\* day that was there before, unless a disturbed closing sets one back.
THEOREM ClosingsSound == CPSpec => ClosingsAreSound
<1>1. ClosingsInvariant /\ [CPNext]_cpVars => ClosingsLoseNothing
  BY QuotesStay, DatesStay, RecordsStay DEF ClosingsLoseNothing
<1> QED
  BY <1>1, AnnouncementsFit, ClosingsStart, ClosingsKeep, PTL DEF CPSpec, ClosingsAreSound
=============================================================================
