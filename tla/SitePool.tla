---------------------------- MODULE SitePool ----------------------------
(* The pool of price sites of src/infra/crawler/site_pool.rs, as the backup  *)
(* task of app/event/trace/price_tasks.rs uses it: a round asks the pool for *)
(* every tracked symbol at once, and all calls draw their next site from one *)
(* shared counter.  Whether a site answers is chosen anew for every request. *)
(* The rounds are all that draws from the counter: nothing in the program    *)
(* calls fetch_stock_price_from_remote_site, fetch_stock_quotes_from_remote_ *)
(* site or fetch_stock_price_from_backup_sites, which draw from it as well.  *)
(* Abstracted: prices, error texts.  The counter never wraps here.           *)
EXTENDS Integers, FiniteSets, Functions

CONSTANTS
    Callers,    \* the symbols that may be tracked
    NSites,     \* sites.len(): the program has 7
    MaxRounds   \* bound: rounds started

ASSUME SitePoolAssumption == NSites \in Nat \ {0} /\ MaxRounds \in Nat /\ IsFiniteSet(Callers)

Sites == 0 .. NSites - 1
NoSite == NSites

VARIABLES
    index,      \* INDEX, the counter every call shares
    call,       \* call[c]: the call of symbol c
    site,       \* site[c]: the site c is waiting for, or NoSite
    tried,      \* tried[c]: how often c has tried each site in this round
    rounds      \* rounds started

spVars == <<index, call, site, tried, rounds>>

Untried == [s \in Sites |-> 0]

SPInit ==
    /\ index = 0
    /\ call = [c \in Callers |-> "idle"]
    /\ site = [c \in Callers |-> NoSite]
    /\ tried = [c \in Callers |-> Untried]
    /\ rounds = 0

InRound == {c \in Callers : call[c] # "idle"}
Trials(c) == SumFunctionOnSet(tried[c], Sites)

(* join_all over the tracked symbols; the calls of the round before have     *)
(* all been awaited.                                                         *)
StartRound(symbols) ==
    /\ \A c \in Callers : call[c] \in {"idle", "ok", "failed"}
    /\ rounds < MaxRounds
    /\ rounds' = rounds + 1
    /\ call' = [c \in Callers |-> IF c \in symbols THEN "calling" ELSE "idle"]
    /\ tried' = [c \in Callers |-> Untried]
    /\ UNCHANGED <<index, site>>

(* Mutant: an off-by-one modulus never reaches the last site.                *)
SiteOfAllButLast(i) == IF NSites = 1 THEN 0 ELSE i % (NSites - 1)

(* The site a counter value stands for.                                      *)
SiteOf(i) == i % NSites

(* One turn of the loop up to its await: take a number, send the request.    *)
TakeSite(c) ==
    /\ call[c] = "calling"
    /\ site[c] = NoSite
    /\ site' = [site EXCEPT ![c] = SiteOf(index)]
    /\ index' = index + 1
    /\ UNCHANGED <<call, tried, rounds>>

(* Mutant: the loop runs once too often.                                     *)
AnswerInclusive(c, answered) ==
    /\ site[c] # NoSite
    /\ tried' = [tried EXCEPT ![c][site[c]] = @ + 1]
    /\ site' = [site EXCEPT ![c] = NoSite]
    /\ call' = [call EXCEPT ![c] = IF answered THEN "ok"
                                   ELSE IF Trials(c) = NSites THEN "failed"
                                   ELSE "calling"]
    /\ UNCHANGED <<index, rounds>>

(* The request is answered or fails.  After the last site the call fails.    *)
Answer(c, answered) ==
    /\ site[c] # NoSite
    /\ tried' = [tried EXCEPT ![c][site[c]] = @ + 1]
    /\ site' = [site EXCEPT ![c] = NoSite]
    /\ call' = [call EXCEPT ![c] = IF answered THEN "ok"
                                   ELSE IF Trials(c) + 1 = NSites THEN "failed"
                                   ELSE "calling"]
    /\ UNCHANGED <<index, rounds>>

SPNext ==
    \/ \E symbols \in (SUBSET Callers) \ {{}} : StartRound(symbols)
    \/ \E c \in Callers : TakeSite(c)
    \/ \E c \in Callers, answered \in BOOLEAN : Answer(c, answered)

SPSpec == SPInit /\ [][SPNext]_spVars

---------------------------------------------------------------------------
(* Every variable has its type; a call never sends more requests than the    *)
(* pool has sites, although several calls draw from one counter.             *)
SPTypeOK ==
    /\ index \in Nat /\ rounds \in 0 .. MaxRounds
    /\ call \in [Callers -> {"idle", "calling", "ok", "failed"}]
    /\ site \in [Callers -> Sites \cup {NoSite}]
    /\ tried \in [Callers -> [Sites -> Nat]]
    /\ \A c \in Callers : Trials(c) + (IF site[c] = NoSite THEN 0 ELSE 1) <= NSites

(* A symbol that is alone in its round and fails has asked every site once.  *)
SoleCallTriesEverySite ==
    \A c \in Callers :
        InRound = {c} /\ call[c] = "failed" => \A s \in Sites : tried[c][s] = 1

(* A round that fails for all its symbols has asked every site as a whole:   *)
(* so a site that answers throughout a round is not missed by all its calls. *)
RoundTriesEverySite ==
    InRound # {} /\ (\A c \in InRound : call[c] = "failed")
        => \A s \in Sites : \E c \in InRound : tried[c][s] > 0

(* What the shared counter leaves of the promise to try every site: it holds *)
(* of a call alone, and of a round as a whole.                               *)
EverySiteIsTried == SoleCallTriesEverySite /\ RoundTriesEverySite

=============================================================================
