----------------------------- MODULE CagrSimulator -----------------------------
(***************************************************************************)
(* The return of one holding over a period (simulate of                    *)
(* domain/performance/simulator.rs): dividends, stock dividends and splits *)
(* are applied in order to three measures, which ignore dividends, keep    *)
(* the cash, or buy shares with it.                                        *)
(*                                                                         *)
(* Shares are counted in units so small that no division has a remainder   *)
(* (Grain); PAR_VALUE stock dividend doubles the shares.  The rates in     *)
(* percent, rounded, are left out: they are monotone in the end values.    *)
(***************************************************************************)
EXTENDS Integers, FiniteSets, Functions

CONSTANTS
    Horizon,        \* the days are 1 .. Horizon
    Base, End,      \* base_date and end_date
    BaseShares,     \* principal / base_price, in units
    Par,            \* PAR_VALUE
    Events,         \* dividend events that may happen
    Splits,         \* corporate actions that may happen
    MaxEvents,      \* bound of the runs on how many events and splits happen
    Prices,         \* closing prices; 0 for none
    Grain           \* what a holding is a multiple of after so many changes

\* What shares, or the cash paid on them, are multiplied and divided by.
Rates == {<<e.stock, Par>> : e \in Events}
            \cup {<<s.num, s.den>> : s \in Splits}
            \cup {<<e.cash, p>> : e \in Events, p \in Prices \ {0}}

ASSUME SimulatorAssumption ==
    /\ Base \in Nat /\ End \in Nat /\ Horizon \in Nat /\ Base < End /\ End <= Horizon
    /\ BaseShares \in Nat \ {0} /\ Par \in Nat \ {0} /\ Prices \subseteq Nat
    /\ IsFiniteSet(Events) /\ IsFiniteSet(Splits) /\ MaxEvents \in Nat
    /\ \A e \in Events : /\ e.cashDay \in 0 .. Horizon /\ e.stockDay \in 0 .. Horizon
                         /\ e.cash \in Nat /\ e.stock \in Nat
    /\ \A s \in Splits : s.day \in 0 .. Horizon /\ s.num \in Nat /\ s.den \in Nat \ {0}

\* The units are small enough for two changes per event, whichever they are.
ASSUME GrainAssumption ==
    /\ Grain \in [0 .. 2 * MaxEvents -> Nat \ {0}] /\ BaseShares % Grain[0] = 0
    /\ \A n \in 1 .. 2 * MaxEvents :
        /\ Grain[n - 1] % Grain[n] = 0
        /\ \A r \in Rates : (Grain[n - 1] * r[1]) % (Grain[n] * r[2]) = 0

Window == Base + 1 .. End

VARIABLES
    events, splits,     \* the input: what happened to the stock
    price,              \* reinvest_prices, and the end price on End
    actions,            \* the actions not yet applied
    priceShares, totalShares, totalCash, reinvestedShares, reinvestedCash

csVars == <<events, splits, price, actions, priceShares, totalShares, totalCash,
            reinvestedShares, reinvestedCash>>

-----------------------------------------------------------------------------
Kinds == [cash |-> 1, stock |-> 2, split |-> 3]

\* The days on which an action counts: base_date < day <= end_date.
InPeriod(day) == Base < day /\ day <= End

\* An event falls into a cash and a stock action, each on its day.
CashOf(e) == [day |-> e.cashDay, kind |-> "cash", num |-> e.cash, den |-> 1, of |-> e]
StockOf(e) == [day |-> e.stockDay, kind |-> "stock", num |-> e.stock, den |-> Par, of |-> e]
SplitOf(s) == [day |-> s.day, kind |-> "split", num |-> s.num, den |-> s.den, of |-> s]

ActionsOf(es, ss) ==
    {CashOf(e) : e \in {e \in es : e.cash > 0 /\ InPeriod(e.cashDay)}}
    \cup {StockOf(e) : e \in {e \in es : e.stock > 0 /\ InPeriod(e.stockDay)}}
    \cup {SplitOf(s) : s \in {s \in ss : s.num > 0 /\ InPeriod(s.day)}}

\* Mutant: splits first.
ComesBeforeByDay(a, b) == a.day < b.day \/ (a.day = b.day /\ Kinds[a.kind] >= Kinds[b.kind])

\* sort_by_key(date, kind)
ComesBefore(a, b) == a.day < b.day \/ (a.day = b.day /\ Kinds[a.kind] <= Kinds[b.kind])

CSInit ==
    /\ events \in {es \in SUBSET Events : Cardinality(es) <= MaxEvents}
    /\ splits \in {ss \in SUBSET Splits : Cardinality(ss) + Cardinality(events) <= MaxEvents}
    /\ price \in [Window -> Prices]
    /\ price[End] > 0
    /\ actions = ActionsOf(events, splits)
    /\ priceShares = BaseShares
    /\ totalShares = BaseShares /\ totalCash = 0
    /\ reinvestedShares = BaseShares /\ reinvestedCash = 0

\* The next action of the sorted list, whatever the order of equal ones.
IsNext(a) == a \in actions /\ \A b \in actions : ComesBefore(a, b)

\* Cash is paid on the shares held; without a price of the day it is kept.
ReinvestOrKeep(payout, day) ==
    IF price[day] > 0
    THEN /\ reinvestedShares' = reinvestedShares + payout \div price[day]
         /\ UNCHANGED reinvestedCash
    ELSE /\ reinvestedCash' = reinvestedCash + payout
         /\ UNCHANGED reinvestedShares

ApplyCash(a) ==
    /\ IsNext(a) /\ a.kind = "cash"
    /\ actions' = actions \ {a}
    /\ totalCash' = totalCash + totalShares * a.num
    /\ ReinvestOrKeep(reinvestedShares * a.num, a.day)
    /\ UNCHANGED <<events, splits, price, priceShares, totalShares>>

\* The holdings with dividends grow by the rate.
ApplyStock(a) ==
    /\ IsNext(a) /\ a.kind = "stock"
    /\ actions' = actions \ {a}
    /\ totalShares' = totalShares + (totalShares * a.num) \div a.den
    /\ reinvestedShares' = reinvestedShares + (reinvestedShares * a.num) \div a.den
    /\ UNCHANGED <<events, splits, price, priceShares, totalCash, reinvestedCash>>

\* All three holdings are converted, the one without dividends too.
ApplySplit(a) ==
    /\ IsNext(a) /\ a.kind = "split"
    /\ actions' = actions \ {a}
    /\ priceShares' = (priceShares * a.num) \div a.den
    /\ totalShares' = (totalShares * a.num) \div a.den
    /\ reinvestedShares' = (reinvestedShares * a.num) \div a.den
    /\ UNCHANGED <<events, splits, price, totalCash, reinvestedCash>>

CSNext == \E a \in actions : ApplyCash(a) \/ ApplyStock(a) \/ ApplySplit(a)

CSSpec == CSInit /\ [][CSNext]_csVars

-----------------------------------------------------------------------------
(* Properties. *)

CSTypeOK ==
    /\ priceShares \in Nat /\ totalShares \in Nat \ {0} /\ reinvestedShares \in Nat \ {0}
    /\ totalCash \in Nat /\ reinvestedCash \in Nat
    /\ \A a \in actions : a.day \in Window

\* What multiplies a share held at the end of the base day until day d begins.
Until(day, d) == InPeriod(day) /\ day < d
StockBefore(d) == {e \in events : e.stock > 0 /\ Until(e.stockDay, d)}
SplitBefore(d) == {s \in splits : s.num > 0 /\ Until(s.day, d)}
Times(x, y) == x * y
Product(f) == FoldFunction(Times, 1, f)
Growth(stock, split) ==
    [num |-> Product([e \in stock |-> Par + e.stock]) * Product([s \in split |-> s.num]),
     den |-> Product([e \in stock |-> Par]) * Product([s \in split |-> s.den])]

HeldBefore(d) ==
    LET growth == Growth(StockBefore(d), SplitBefore(d))
    IN (BaseShares * growth.num) \div growth.den

\* The measure that keeps the cash has, at the end, the shares the holder of the base day
\* would have, and the cash each of them was paid on the shares held when the day of the
\* dividend began, whatever the order and the overlap of the days (the sort of simulate).
PaidOn(e) == HeldBefore(e.cashDay) * e.cash
TotalIsWhatAHolderGets ==
    actions = {} =>
        /\ totalShares = HeldBefore(End + 1)
        /\ totalCash = LET paying == {e \in events : e.cash > 0 /\ InPeriod(e.cashDay)}
                        IN SumFunctionOnSet([e \in paying |-> PaidOn(e)], paying)

\* Buying shares below the end price never does worse than keeping the cash, and above it
\* never better as long as nothing is paid on bought shares, if no shares are split or
\* given; and cash that finds no price is not lost: without any price both measures agree
\* (ReinvestOrKeep).
ReinvestingFollowsPrices ==
    (actions = {} /\ splits = {} /\ \A e \in events : e.stock = 0) =>
        LET paying == {e \in events : e.cash > 0 /\ InPeriod(e.cashDay)}
            total == totalShares * price[End] + totalCash
            reinvested == reinvestedShares * price[End] + reinvestedCash
        IN /\ (\A e \in paying : price[e.cashDay] = 0) => reinvested = total
           /\ (\A e \in paying : price[e.cashDay] \in 0 .. price[End]) => reinvested >= total
           /\ /\ \A e \in paying : price[e.cashDay] = 0 \/ price[e.cashDay] >= price[End]
              /\ \A e, f \in paying : e = f
              => reinvested <= total

\* A split is no gain or loss: the three measures are worth the same when nothing but
\* splits happened, whatever the splits and the prices (ApplySplit).
SplitsAloneLeaveMeasuresEqual ==
    (actions = {} /\ events = {}) =>
        /\ priceShares = totalShares /\ totalShares = reinvestedShares
        /\ totalCash = 0 /\ reinvestedCash = 0

\* What a simulation ends with is what holders get, in each of the three measures.
SimulationIsExact ==
    /\ TotalIsWhatAHolderGets
    /\ ReinvestingFollowsPrices
    /\ SplitsAloneLeaveMeasuresEqual
=============================================================================
