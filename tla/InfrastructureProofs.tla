------------------------ MODULE InfrastructureProofs ------------------------
(***************************************************************************)
(* The infrastructure, for any crawlers, recipients, symbols and limits.   *)
(***************************************************************************)
EXTENDS MCInfrastructure, SumLemmas, TLAPS

-----------------------------------------------------------------------------
(* Requests and their alerts, for any crawlers and recipients, any number  *)
(* of permits and any limits of the two kinds of retries.                  *)

LEMMA HttpLimits ==
    /\ Permits \in Nat \ {0} /\ MaxNetworkRetries \in Nat \ {0}
    /\ MaxRateLimitRetries \in Nat
BY HttpAssumption

\* The requests of alerts are others than those of crawlers.
LEMMA Apart == \A c \in Crawlers : c \notin Alerts
BY HttpAssumption DEF Alerts

LEMMA PairsAreRequests ==
    ASSUME NEW c \in Crawlers, NEW k \in Recipients
    PROVE  <<c, k>> \in Alerts /\ <<c, k>> \in Requests
BY DEF Alerts, Requests

Stages == Ended \cup {"off", "ready", "wire", "pause"}

\* What an alert is made of: functions with the right domains.
Types ==
    /\ stage \in [Requests -> Stages]
    /\ failures \in [Requests -> Nat]
    /\ limited \in [Requests -> Nat]
    /\ message \in [Crawlers -> {"none", "markdown", "plain", "sent"}]
    /\ alerts \in Nat /\ forbidden \in Nat
    /\ copies \in [Alerts -> Nat]
    /\ accepted \subseteq Alerts

Going == {"off", "ready", "wire", "pause"}

\* A crawler's request has an alert once it was refused, and then is over.
CrawlerFits(c) ==
    /\ message[c] # "none" <=> stage[c] = "refused"
    /\ failures[c] <= MaxNetworkRetries
    /\ limited[c] <= MaxRateLimitRetries + 1
    /\ stage[c] \in Going =>
        failures[c] < MaxNetworkRetries /\ limited[c] <= MaxRateLimitRetries

CrawlersFit == \A c \in Crawlers : CrawlerFits(c)

\* Copies of the form that is over.
Before(c) == IF message[c] \in {"none", "markdown"} THEN 0 ELSE MaxNetworkRetries

\* The request of an alert to a recipient: within a form each failed send adds at most one
\* copy, the last send one more; what was confirmed has arrived.
AlertFits(c, k) ==
    LET m == <<c, k>> IN
    /\ message[c] = "none" <=> stage[m] = "off"
    /\ message[c] = "sent" => stage[m] \in Ended
    /\ failures[m] <= MaxNetworkRetries
    /\ limited[m] = 0
    /\ stage[m] = "off" => copies[m] = 0 /\ failures[m] = 0
    /\ stage[m] \in {"ready", "wire", "pause"} =>
        failures[m] < MaxNetworkRetries /\ copies[m] <= Before(c) + failures[m]
    /\ stage[m] \in Ended => copies[m] <= Before(c) + MaxNetworkRetries
    /\ stage[m] = "ok" <=> m \in accepted
    /\ m \in accepted => copies[m] > 0

AlertsFit == \A c \in Crawlers, k \in Recipients : AlertFits(c, k)

PermitsFit == IsFiniteSet(OnWire) /\ Cardinality(OnWire) <= Permits

HttpInv == Types /\ CrawlersFit /\ AlertsFit /\ PermitsFit /\ alerts = forbidden

LEMMA HttpInit == HCInit => HttpInv
<1> SUFFICES ASSUME HCInit PROVE HttpInv
  OBVIOUS
<1> USE HttpLimits DEF HCInit
<1>1. Types
  BY DEF Types, Stages
<1>2. CrawlersFit
  BY DEF CrawlersFit, CrawlerFits, Going, Requests
<1>3. ASSUME NEW c \in Crawlers, NEW k \in Recipients PROVE AlertFits(c, k)
  <2> DEFINE m == <<c, k>>
  <2>1. m \in Alerts /\ m \in Requests
    BY PairsAreRequests
  <2>2. /\ stage[m] = "off" /\ failures[m] = 0 /\ limited[m] = 0
        /\ copies[m] = 0 /\ message[c] = "none" /\ m \notin accepted
    BY <2>1
  <2> HIDE DEF m
  <2> QED
    BY <2>2 DEF AlertFits, Ended, m
<1>4. OnWire = {}
  BY DEF OnWire
<1>5. PermitsFit
  BY <1>4, FS_EmptySet DEF PermitsFit
<1> QED
  BY <1>1, <1>2, <1>3, <1>5 DEF HttpInv, AlertsFit, HCInit
-----------------------------------------------------------------------------
(* The permits.                                                            *)

\* A send that takes a permit.
LEMMA PermitTaken ==
    ASSUME Types, PermitsFit, NEW r \in Requests, Acquire(r)
    PROVE  PermitsFit'
<1>1. OnWire' = OnWire \cup {r}
  BY DEF Acquire, OnWire, Types
<1>2. r \notin OnWire
  BY DEF Acquire, OnWire
<1>3. IsFiniteSet(OnWire') /\ Cardinality(OnWire') = Cardinality(OnWire) + 1
  BY <1>1, <1>2, FS_AddElement DEF PermitsFit
<1>4. Cardinality(OnWire) \in Nat
  BY FS_CardinalityType DEF PermitsFit
<1> QED
  BY <1>3, <1>4, HttpLimits DEF PermitsFit, Acquire

\* A step after which only what was on the wire still is.
LEMMA PermitsKept ==
    ASSUME PermitsFit, OnWire' \subseteq OnWire
    PROVE  PermitsFit'
<1>1. IsFiniteSet(OnWire') /\ Cardinality(OnWire') <= Cardinality(OnWire)
  BY FS_Subset DEF PermitsFit
<1>2. Cardinality(OnWire) \in Nat /\ Cardinality(OnWire') \in Nat
  BY <1>1, FS_CardinalityType DEF PermitsFit
<1> QED
  BY <1>1, <1>2, HttpLimits DEF PermitsFit
-----------------------------------------------------------------------------
(* The steps of one request.                                               *)

\* Nothing about requests other than r changes.
OnlyTouches(r) ==
    /\ UNCHANGED message
    /\ \A q \in Requests : q # r =>
        stage'[q] = stage[q] /\ failures'[q] = failures[q] /\ limited'[q] = limited[q]
    /\ \A q \in Alerts : q # r =>
        copies'[q] = copies[q] /\ (q \in accepted' <=> q \in accepted)

LEMMA OthersFit ==
    ASSUME CrawlersFit, AlertsFit, NEW r \in Requests, OnlyTouches(r),
           r \in Crawlers => CrawlerFits(r)',
           \A c \in Crawlers, k \in Recipients : r = <<c, k>> => AlertFits(c, k)'
    PROVE  CrawlersFit' /\ AlertsFit'
<1>1. ASSUME NEW c \in Crawlers, c # r PROVE CrawlerFits(c)'
  BY <1>1 DEF CrawlersFit, CrawlerFits, OnlyTouches, Requests
<1>2. ASSUME NEW c \in Crawlers, NEW k \in Recipients, <<c, k>> # r PROVE AlertFits(c, k)'
  <2> DEFINE m == <<c, k>>
  <2>1. m \in Alerts /\ m \in Requests /\ AlertFits(c, k)
    BY PairsAreRequests DEF AlertsFit
  <2>2. /\ stage'[m] = stage[m] /\ failures'[m] = failures[m] /\ limited'[m] = limited[m]
        /\ copies'[m] = copies[m] /\ (m \in accepted' <=> m \in accepted)
        /\ message' = message
    BY <1>2, <2>1 DEF OnlyTouches
  <2>3. Before(c)' = Before(c)
    BY <2>2 DEF Before
  <2> QED
    BY <2>1, <2>2, <2>3 DEF AlertFits
<1> QED
  BY <1>1, <1>2 DEF CrawlersFit, AlertsFit

LEMMA CallSendStep == ASSUME HttpInv, NEW c \in Crawlers, CallSend(c) PROVE HttpInv'
<1> USE DEF HttpInv
<1>1. c \in Requests /\ c \notin Alerts
  BY Apart DEF Requests
<1>2. Types'
  BY <1>1 DEF Types, CallSend, Stages
<1>3. OnlyTouches(c)
  BY <1>1 DEF OnlyTouches, CallSend, Types
<1>4. CrawlerFits(c)'
  BY <1>1 DEF CrawlersFit, CrawlerFits, Going, CallSend, Types
<1>5. \A d \in Crawlers, k \in Recipients : c # <<d, k>>
  BY <1>1, PairsAreRequests
<1>6. OnWire' \subseteq OnWire
  BY <1>1 DEF OnWire, CallSend, Types
<1> QED
  BY <1>1, <1>2, <1>3, <1>4, <1>5, <1>6, OthersFit, PermitsKept DEF CallSend

\* A step of one request that changes its stage only, between stages on its way.
LEMMA OnItsWay ==
    ASSUME HttpInv, NEW r \in Requests, NEW from \in {"ready", "pause"},
           NEW to \in {"ready", "wire"}, stage[r] = from,
           stage' = [stage EXCEPT ![r] = to],
           UNCHANGED <<failures, limited, message, alerts, forbidden, copies, accepted>>
    PROVE  Types' /\ CrawlersFit' /\ AlertsFit' /\ alerts' = forbidden'
<1> USE DEF HttpInv
<1>1. Types'
  BY DEF Types, Stages
<1>2. OnlyTouches(r)
  BY DEF OnlyTouches, Types
<1>3. stage'[r] = to
  BY DEF Types
<1>4. r \in Crawlers => CrawlerFits(r)'
  BY <1>3 DEF CrawlersFit, CrawlerFits, Going
<1>5. ASSUME NEW c \in Crawlers, NEW k \in Recipients, r = <<c, k>> PROVE AlertFits(c, k)'
  <2>1. AlertFits(c, k)
    BY DEF AlertsFit
  <2>2. Before(c)' = Before(c)
    BY DEF Before
  <2> QED
    BY <1>3, <1>5, <2>1, <2>2 DEF AlertFits, Ended
<1> QED
  BY <1>1, <1>2, <1>4, <1>5, OthersFit

LEMMA AcquireStep == ASSUME HttpInv, NEW r \in Requests, Acquire(r) PROVE HttpInv'
<1>1. PermitsFit'
  BY PermitTaken DEF HttpInv
<1>2. Types' /\ CrawlersFit' /\ AlertsFit' /\ alerts' = forbidden'
  BY OnItsWay DEF Acquire
<1> QED
  BY <1>1, <1>2 DEF HttpInv

LEMMA ResumeStep == ASSUME HttpInv, NEW r \in Requests, Resume(r) PROVE HttpInv'
<1>1. OnWire' \subseteq OnWire
  BY DEF OnWire, Resume, HttpInv, Types
<1>2. PermitsFit'
  BY <1>1, PermitsKept DEF HttpInv
<1>3. Types' /\ CrawlersFit' /\ AlertsFit' /\ alerts' = forbidden'
  BY OnItsWay DEF Resume
<1> QED
  BY <1>2, <1>3 DEF HttpInv

LEMMA SendFailsStep ==
    ASSUME HttpInv, NEW r \in Requests, NEW arrived \in BOOLEAN, SendFails(r, arrived)
    PROVE  HttpInv'
<1> USE DEF HttpInv
<1>1. /\ stage[r] = "wire" /\ failures'[r] = failures[r] + 1
      /\ stage'[r] = IF failures[r] + 1 >= MaxNetworkRetries THEN "err" ELSE "pause"
      /\ UNCHANGED <<limited, message, alerts, forbidden, accepted>>
  BY DEF SendFails, Types
<1>2. r \in Alerts => copies[r] \in Nat /\ copies'[r] \in {copies[r], copies[r] + 1}
  BY DEF SendFails, Received, IsTelegram, Types
<1>3. Types'
  <2>1. stage' \in [Requests -> Stages]
    BY <1>1 DEF SendFails, Types, Stages, Ended
  <2>2. failures' \in [Requests -> Nat]
    BY DEF SendFails, Types
  <2>3. copies' \in [Alerts -> Nat]
    BY DEF SendFails, Received, IsTelegram, Types
  <2> QED
    BY <1>1, <2>1, <2>2, <2>3 DEF Types
<1>4. OnlyTouches(r)
  BY DEF OnlyTouches, SendFails, Received, IsTelegram, Types
<1>5. failures[r] \in Nat
  BY DEF Types
<1>6. r \in Crawlers => CrawlerFits(r)'
  BY <1>1, <1>5, HttpLimits DEF CrawlersFit, CrawlerFits, Going
<1>7. ASSUME NEW c \in Crawlers, NEW k \in Recipients, r = <<c, k>> PROVE AlertFits(c, k)'
  <2>1. AlertFits(c, k) /\ r \in Alerts
    BY <1>7, PairsAreRequests DEF AlertsFit
  <2>2. Before(c)' = Before(c) /\ Before(c) \in Nat
    BY <1>1, HttpLimits DEF Before
  <2>3. failures[r] < MaxNetworkRetries /\ copies[r] <= Before(c) + failures[r]
    BY <1>1, <1>7, <2>1 DEF AlertFits
  <2>4. r \notin accepted /\ message[c] \notin {"none", "sent"} /\ limited[r] = 0
    BY <1>1, <1>7, <2>1 DEF AlertFits, Ended
  <2>5. copies'[r] <= Before(c) + failures'[r] /\ copies'[r] <= Before(c) + MaxNetworkRetries
    BY <1>1, <1>2, <1>5, <2>1, <2>2, <2>3, HttpLimits
  <2> QED
    BY <1>1, <1>5, <1>7, <2>2, <2>3, <2>4, <2>5, HttpLimits DEF AlertFits, Ended
<1>8. OnWire' \subseteq OnWire
  BY <1>1, <1>4 DEF OnWire, OnlyTouches
<1> QED
  BY <1>1, <1>3, <1>4, <1>6, <1>7, <1>8, OthersFit, PermitsKept

LEMMA RateLimitedStep ==
    ASSUME HttpInv, NEW r \in Requests, RateLimited(r)
    PROVE  HttpInv'
<1> USE DEF HttpInv
<1>1. /\ stage[r] = "wire" /\ limited'[r] = limited[r] + 1 /\ limited[r] \in Nat
      /\ stage'[r] = IF limited[r] + 1 <= MaxRateLimitRetries THEN "pause" ELSE "err"
      /\ UNCHANGED <<failures, message, alerts, forbidden, copies, accepted>>
  BY DEF RateLimited, Types
<1>2. Types'
  <2>1. stage' \in [Requests -> Stages]
    BY <1>1 DEF RateLimited, Types, Stages, Ended
  <2>2. limited' \in [Requests -> Nat]
    BY DEF RateLimited, Types
  <2> QED
    BY <1>1, <2>1, <2>2 DEF Types
<1>3. OnlyTouches(r)
  BY DEF OnlyTouches, RateLimited, Types
<1>4. r \in Crawlers => CrawlerFits(r)'
  BY <1>1, HttpLimits DEF CrawlersFit, CrawlerFits, Going
<1>5. \A c \in Crawlers, k \in Recipients : r # <<c, k>>
  BY PairsAreRequests DEF RateLimited, IsTelegram
<1>6. OnWire' \subseteq OnWire
  BY <1>1, <1>3 DEF OnWire, OnlyTouches
<1> QED
  BY <1>1, <1>2, <1>3, <1>4, <1>5, <1>6, OthersFit, PermitsKept

LEMMA AnsweredStep ==
    ASSUME HttpInv, NEW r \in Requests, NEW outcome \in Ended, NEW arrived \in BOOLEAN,
           Answered(r, outcome, arrived)
    PROVE  HttpInv'
<1> USE DEF HttpInv
<1>1. /\ stage[r] = "wire" /\ stage'[r] = outcome
      /\ outcome = "ok" => arrived
      /\ r \notin Alerts => outcome = "ok"
      /\ UNCHANGED <<failures, limited, message, alerts, forbidden>>
  BY DEF Answered, IsTelegram, Types
<1>2. r \in Alerts =>
        /\ copies[r] \in Nat
        /\ copies'[r] = IF arrived THEN copies[r] + 1 ELSE copies[r]
  BY DEF Answered, Received, IsTelegram, Types
<1>3. accepted' = IF r \in Alerts /\ outcome = "ok" THEN accepted \cup {r} ELSE accepted
  BY DEF Answered, IsTelegram
<1>4. Types'
  <2>1. stage' \in [Requests -> Stages]
    BY DEF Answered, Types, Stages
  <2>2. copies' \in [Alerts -> Nat]
    BY DEF Answered, Received, IsTelegram, Types
  <2>3. accepted' \subseteq Alerts
    BY <1>3 DEF Types
  <2> QED
    BY <1>1, <2>1, <2>2, <2>3 DEF Types
<1>5. OnlyTouches(r)
  BY <1>3 DEF OnlyTouches, Answered, Received, IsTelegram, Types
<1>6. failures[r] \in Nat
  BY DEF Types
<1>7. r \in Crawlers => CrawlerFits(r)'
  BY <1>1, Apart DEF CrawlersFit, CrawlerFits, Going
<1>8. ASSUME NEW c \in Crawlers, NEW k \in Recipients, r = <<c, k>> PROVE AlertFits(c, k)'
  <2>1. AlertFits(c, k) /\ r \in Alerts
    BY <1>8, PairsAreRequests DEF AlertsFit
  <2>2. Before(c)' = Before(c) /\ Before(c) \in Nat
    BY <1>1, HttpLimits DEF Before
  <2>3. failures[r] < MaxNetworkRetries /\ copies[r] <= Before(c) + failures[r]
    BY <1>1, <1>8, <2>1 DEF AlertFits
  <2>4. r \notin accepted /\ message[c] \notin {"none", "sent"} /\ limited[r] = 0
    BY <1>1, <1>8, <2>1 DEF AlertFits, Ended
  <2>5. copies'[r] <= Before(c) + MaxNetworkRetries
    BY <1>2, <1>6, <2>1, <2>2, <2>3, HttpLimits
  <2>6. outcome = "ok" <=> r \in accepted'
    BY <1>3, <2>1, <2>4
  <2>7. r \in accepted' => copies'[r] > 0
    BY <1>1, <1>2, <2>1, <2>6
  <2> QED
    BY <1>1, <1>6, <1>8, <2>2, <2>3, <2>4, <2>5, <2>6, <2>7, HttpLimits DEF AlertFits, Ended
<1>9. OnWire' \subseteq OnWire
  BY <1>1, <1>5 DEF OnWire, OnlyTouches
<1> QED
  BY <1>1, <1>4, <1>5, <1>7, <1>8, <1>9, OthersFit, PermitsKept

\* A refused request of an alert causes no alert.
LEMMA AlertRefusedStep ==
    ASSUME HttpInv, NEW r \in Alerts, Forbidden(r)
    PROVE  HttpInv'
<1> USE DEF HttpInv
<1>1. /\ r \in Requests /\ stage[r] = "wire"
      /\ stage' = [stage EXCEPT ![r] = "refused"]
      /\ UNCHANGED <<failures, limited, message, alerts, forbidden, copies, accepted>>
  BY DEF Forbidden, IsTelegram, CausesAlert, Requests
<1>2. Types'
  BY <1>1 DEF Types, Stages, Ended
<1>3. OnlyTouches(r) /\ stage'[r] = "refused"
  BY <1>1 DEF OnlyTouches, Types
<1>4. r \notin Crawlers
  BY Apart
<1>5. ASSUME NEW c \in Crawlers, NEW k \in Recipients, r = <<c, k>> PROVE AlertFits(c, k)'
  <2>1. AlertFits(c, k) /\ Before(c)' = Before(c)
    BY <1>1 DEF AlertsFit, Before
  <2>2. failures[r] \in Nat /\ copies[r] \in Nat /\ Before(c) \in Nat
    BY <1>1, HttpLimits DEF Types, Before
  <2>3. failures[r] < MaxNetworkRetries /\ copies[r] <= Before(c) + failures[r]
    BY <1>1, <1>5, <2>1 DEF AlertFits
  <2>4. copies[r] <= Before(c) + MaxNetworkRetries
    BY <2>2, <2>3, HttpLimits
  <2> QED
    BY <1>1, <1>3, <1>5, <2>1, <2>2, <2>3, <2>4, HttpLimits DEF AlertFits, Ended
<1>6. OnWire' \subseteq OnWire
  BY <1>1, <1>3 DEF OnWire, OnlyTouches
<1> QED
  BY <1>1, <1>2, <1>3, <1>4, <1>5, <1>6, OthersFit, PermitsKept
-----------------------------------------------------------------------------
(* The steps of an alert.                                                  *)

\* A form of the alert of c is sent: all its requests are new, the others stay.
Sends(c, form, f) ==
    /\ stage' = WithMessage(f, c, "ready") /\ failures' = WithMessage(failures, c, 0)
    /\ message' = [message EXCEPT ![c] = form]
    /\ UNCHANGED <<limited, copies, accepted>>

LEMMA FormSent ==
    ASSUME HttpInv, NEW c \in Crawlers, NEW form \in {"markdown", "plain"},
           NEW f \in [Requests -> Stages], \A q \in Requests : q # c => f[q] = stage[q],
           Sends(c, form, f),
           \A k \in Recipients :
             /\ <<c, k>> \notin accepted
             /\ copies[<<c, k>>] <= IF form = "markdown" THEN 0 ELSE MaxNetworkRetries
    PROVE  /\ stage'[c] = f[c] /\ failures'[c] = failures[c]
           /\ message'[c] = form
           /\ AlertsFit'
           /\ \A d \in Crawlers : d # c => CrawlerFits(d)'
           /\ \A q \in Requests : q # c => (stage'[q] = "wire" => stage[q] = "wire")
           /\ stage' \in [Requests -> Stages] /\ failures' \in [Requests -> Nat]
           /\ message' \in [Crawlers -> {"none", "markdown", "plain", "sent"}]
<1> USE DEF HttpInv
<1> DEFINE Mine == {c} \X Recipients
<1>1. \A d \in Crawlers : d \in Requests /\ d \notin Mine
  BY Apart DEF Requests, Alerts
<1>2. /\ \A q \in Requests : stage'[q] = IF q \in Mine THEN "ready" ELSE f[q]
      /\ \A q \in Requests : failures'[q] = IF q \in Mine THEN 0 ELSE failures[q]
  BY DEF Sends, WithMessage
<1>3. /\ message'[c] = form
      /\ \A d \in Crawlers : d # c => message'[d] = message[d]
      /\ UNCHANGED <<limited, copies, accepted>>
  BY DEF Sends, Types
<1>4. ASSUME NEW d \in Crawlers, NEW k \in Recipients PROVE AlertFits(d, k)'
  <2> DEFINE m == <<d, k>>
  <2>1. m \in Requests /\ m \in Alerts /\ AlertFits(d, k) /\ m # c
    BY PairsAreRequests, Apart DEF AlertsFit
  <2>2. CASE d = c
    <3>1. m \in Mine
      BY <2>2
    <3>2. stage'[m] = "ready" /\ failures'[m] = 0 /\ limited'[m] = 0
      BY <1>2, <1>3, <2>1, <3>1 DEF AlertFits
    <3>3. m \notin accepted' /\ copies'[m] = copies[m] /\ copies[m] \in Nat
      BY <1>3, <2>1, <2>2 DEF Types
    <3>4. Before(d)' = IF form = "markdown" THEN 0 ELSE MaxNetworkRetries
      BY <1>3, <2>2 DEF Before
    <3>5. copies'[m] <= Before(d)' + failures'[m]
      BY <2>2, <3>2, <3>3, <3>4, HttpLimits
    <3>6. message'[d] = form
      BY <1>3, <2>2
    <3> QED
      BY <3>2, <3>3, <3>4, <3>5, <3>6, HttpLimits DEF AlertFits, Ended
  <2>3. CASE d # c
    <3>1. m \notin Mine
      BY <2>3
    <3>2. /\ stage'[m] = stage[m] /\ failures'[m] = failures[m] /\ limited'[m] = limited[m]
          /\ copies'[m] = copies[m] /\ (m \in accepted' <=> m \in accepted)
          /\ message'[d] = message[d]
      BY <1>2, <1>3, <2>1, <2>3, <3>1
    <3>3. Before(d)' = Before(d)
      BY <3>2 DEF Before
    <3> QED
      BY <2>1, <3>2, <3>3 DEF AlertFits
  <2> QED
    BY <2>2, <2>3
<1>5. ASSUME NEW d \in Crawlers, d # c PROVE CrawlerFits(d)'
  BY <1>1, <1>2, <1>3, <1>5 DEF CrawlersFit, CrawlerFits
<1>6. ASSUME NEW q \in Requests, q # c, stage'[q] = "wire" PROVE stage[q] = "wire"
  BY <1>2, <1>6
<1>7. stage' \in [Requests -> Stages]
  BY DEF Sends, WithMessage, Stages
<1>8. failures' \in [Requests -> Nat]
  BY DEF Sends, WithMessage, Types
<1>9. message' \in [Crawlers -> {"none", "markdown", "plain", "sent"}]
  BY DEF Sends, Types
<1> QED
  BY <1>1, <1>2, <1>3, <1>4, <1>5, <1>6, <1>7, <1>8, <1>9 DEF AlertsFit

LEMMA CrawlerRefusedStep ==
    ASSUME HttpInv, NEW c \in Crawlers, Forbidden(c)
    PROVE  HttpInv'
<1> USE DEF HttpInv
<1> DEFINE f == [stage EXCEPT ![c] = "refused"]
<1>1. c \in Requests /\ ~IsTelegram(c)
  BY Apart DEF Requests, IsTelegram
<1>2. /\ stage[c] = "wire" /\ Sends(c, "markdown", f)
      /\ alerts' = alerts + 1 /\ forbidden' = forbidden + 1
  BY <1>1 DEF Forbidden, CausesAlert, Sends
<1>3. f \in [Requests -> Stages] /\ f[c] = "refused" /\ \A q \in Requests : q # c => f[q] = stage[q]
  BY <1>1 DEF Types, Stages, Ended
<1>4. message[c] = "none" /\ failures[c] <= MaxNetworkRetries
        /\ limited[c] <= MaxRateLimitRetries + 1
  BY <1>2 DEF CrawlersFit, CrawlerFits
<1>5. ASSUME NEW k \in Recipients
      PROVE  <<c, k>> \notin accepted /\ copies[<<c, k>>] <= 0
  <2>1. AlertFits(c, k)
    BY DEF AlertsFit
  <2>2. stage[<<c, k>>] = "off"
    BY <1>4, <2>1 DEF AlertFits
  <2> QED
    BY <2>1, <2>2 DEF AlertFits
<1> HIDE DEF f
<1>6. /\ stage'[c] = "refused" /\ failures'[c] = failures[c] /\ message'[c] = "markdown"
      /\ AlertsFit' /\ \A d \in Crawlers : d # c => CrawlerFits(d)'
      /\ \A q \in Requests : q # c => (stage'[q] = "wire" => stage[q] = "wire")
      /\ stage' \in [Requests -> Stages] /\ failures' \in [Requests -> Nat]
      /\ message' \in [Crawlers -> {"none", "markdown", "plain", "sent"}]
  BY <1>2, <1>3, <1>5, FormSent
<1>7. UNCHANGED <<limited, copies, accepted>>
  BY <1>2 DEF Sends
<1>8. Types'
  BY <1>2, <1>6, <1>7 DEF Types
<1>9. CrawlerFits(c)'
  BY <1>4, <1>6, <1>7 DEF CrawlerFits, Going
<1>10. OnWire' \subseteq OnWire
  BY <1>6 DEF OnWire
<1> QED
  BY <1>2, <1>6, <1>8, <1>9, <1>10, PermitsKept DEF CrawlersFit

LEMMA FallbackStep ==
    ASSUME HttpInv, NEW c \in Crawlers, message[c] = "markdown",
           {stage[<<c, k>>] : k \in Recipients} \subseteq Ended,
           FallsBack({stage[<<c, k>>] : k \in Recipients}),
           Sends(c, "plain", stage), UNCHANGED <<alerts, forbidden>>
    PROVE  HttpInv'
<1> USE DEF HttpInv
<1>1. ASSUME NEW k \in Recipients
      PROVE  <<c, k>> \notin accepted /\ copies[<<c, k>>] <= MaxNetworkRetries
  <2>1. AlertFits(c, k)
    BY DEF AlertsFit
  <2>2. stage[<<c, k>>] \in Ended /\ stage[<<c, k>>] # "ok"
    BY DEF FallsBack
  <2>3. Before(c) = 0
    BY DEF Before
  <2>4. copies[<<c, k>>] \in Nat
    BY PairsAreRequests DEF Types
  <2> QED
    BY <2>1, <2>2, <2>3, <2>4, HttpLimits DEF AlertFits
<1>2. /\ stage'[c] = stage[c] /\ failures'[c] = failures[c] /\ message'[c] = "plain"
      /\ AlertsFit' /\ \A d \in Crawlers : d # c => CrawlerFits(d)'
      /\ \A q \in Requests : q # c => (stage'[q] = "wire" => stage[q] = "wire")
      /\ stage' \in [Requests -> Stages] /\ failures' \in [Requests -> Nat]
      /\ message' \in [Crawlers -> {"none", "markdown", "plain", "sent"}]
  <2>1. stage \in [Requests -> Stages]
    BY DEF Types
  <2> QED
    BY <1>1, <2>1, FormSent
<1>3. UNCHANGED <<limited, copies, accepted>>
  BY DEF Sends
<1>4. Types'
  BY <1>2, <1>3 DEF Types
<1>5. CrawlerFits(c)'
  BY <1>2, <1>3 DEF CrawlersFit, CrawlerFits, Going
<1>6. OnWire' \subseteq OnWire
  BY <1>2 DEF OnWire
<1> QED
  BY <1>2, <1>4, <1>5, <1>6, PermitsKept DEF CrawlersFit

LEMMA SentStep ==
    ASSUME HttpInv, NEW c \in Crawlers, message[c] \in {"markdown", "plain"},
           {stage[<<c, k>>] : k \in Recipients} \subseteq Ended,
           message' = [message EXCEPT ![c] = "sent"],
           UNCHANGED <<stage, failures, limited, alerts, forbidden, copies, accepted>>
    PROVE  HttpInv'
<1> USE DEF HttpInv
<1>1. Types'
  BY DEF Types
<1>2. message'[c] = "sent" /\ \A d \in Crawlers : d # c => message'[d] = message[d]
  BY DEF Types
<1>3. CrawlersFit'
  BY <1>2 DEF CrawlersFit, CrawlerFits
<1>4. ASSUME NEW d \in Crawlers, NEW k \in Recipients PROVE AlertFits(d, k)'
  <2>1. AlertFits(d, k)
    BY DEF AlertsFit
  <2>2. CASE d = c
    <3>1. stage[<<d, k>>] \in Ended
      BY <2>2
    <3>2. Before(d) \in {0, MaxNetworkRetries} /\ Before(d)' = MaxNetworkRetries
      BY <1>2, <2>2 DEF Before
    <3>3. copies[<<d, k>>] \in Nat /\ failures[<<d, k>>] \in Nat
      BY PairsAreRequests DEF Types
    <3>4. copies[<<d, k>>] <= Before(d)' + MaxNetworkRetries
      BY <2>1, <3>1, <3>2, <3>3, HttpLimits DEF AlertFits
    <3> QED
      BY <1>2, <2>1, <2>2, <3>1, <3>4 DEF AlertFits, Ended
  <2>3. CASE d # c
    <3>1. Before(d)' = Before(d) /\ message'[d] = message[d]
      BY <1>2, <2>3 DEF Before
    <3> QED
      BY <2>1, <3>1 DEF AlertFits
  <2> QED
    BY <2>2, <2>3
<1>5. PermitsFit'
  BY PermitsKept DEF OnWire
<1> QED
  BY <1>1, <1>3, <1>4, <1>5 DEF AlertsFit

LEMMA JoinedStep == ASSUME HttpInv, NEW c \in Crawlers, Joined(c) PROVE HttpInv'
<1> DEFINE outcomes == {stage[<<c, k>>] : k \in Recipients}
<1>1. message[c] \in {"markdown", "plain"} /\ outcomes \subseteq Ended
  BY DEF Joined
<1>2. CASE message[c] = "markdown" /\ FallsBack(outcomes)
  <2>1. Sends(c, "plain", stage) /\ UNCHANGED <<alerts, forbidden>>
    BY <1>2 DEF Joined, Sends
  <2> QED
    BY <1>1, <1>2, <2>1, FallbackStep
<1>3. CASE ~(message[c] = "markdown" /\ FallsBack(outcomes))
  <2>1. /\ message' = [message EXCEPT ![c] = "sent"]
        /\ UNCHANGED <<stage, failures, limited, alerts, forbidden, copies, accepted>>
    BY <1>3 DEF Joined
  <2> QED
    BY <1>1, <2>1, SentStep
<1> QED
  BY <1>2, <1>3

LEMMA HttpStep == HttpInv /\ [HCNext]_hcVars => HttpInv'
<1> SUFFICES ASSUME HttpInv, [HCNext]_hcVars PROVE HttpInv'
  OBVIOUS
<1>1. CASE UNCHANGED hcVars
  BY <1>1 DEF hcVars, HttpInv, Types, CrawlersFit, CrawlerFits, AlertsFit, AlertFits, Before,
              PermitsFit, OnWire
<1>2. ASSUME NEW r \in Requests, Forbidden(r) PROVE HttpInv'
  <2>1. r \in Crawlers \/ r \in Alerts
    BY DEF Requests
  <2> QED
    BY <1>2, <2>1, AlertRefusedStep, CrawlerRefusedStep
<1> QED
  BY <1>1, <1>2, CallSendStep, JoinedStep, AcquireStep, RateLimitedStep, ResumeStep,
     SendFailsStep, AnsweredStep DEF HCNext
-----------------------------------------------------------------------------
(* The theorems.                                                           *)

LEMMA InvGivesTypes == HttpInv => HCTypeOK
<1> SUFFICES ASSUME HttpInv PROVE HCTypeOK
  OBVIOUS
<1>1. ASSUME NEW r \in Requests
      PROVE  failures[r] <= MaxNetworkRetries /\ limited[r] <= MaxRateLimitRetries + 1
  <2>1. CASE r \in Crawlers
    BY <2>1 DEF HttpInv, CrawlersFit, CrawlerFits
  <2>2. ASSUME NEW c \in Crawlers, NEW k \in Recipients, r = <<c, k>>
        PROVE  failures[r] <= MaxNetworkRetries /\ limited[r] = 0
    BY <2>2 DEF HttpInv, AlertsFit, AlertFits
  <2> QED
    BY <2>1, <2>2, HttpLimits DEF Requests, Alerts
<1>2. failures \in [Requests -> 0 .. MaxNetworkRetries]
  BY <1>1, HttpLimits DEF HttpInv, Types
<1>3. limited \in [Requests -> 0 .. MaxRateLimitRetries + 1]
  BY <1>1, HttpLimits DEF HttpInv, Types
<1> QED
  BY <1>2, <1>3 DEF HttpInv, Types, HCTypeOK, Stages

\* Every variable has its type; a request fails no more often than its limits say.
THEOREM RequestTypesCorrect == HCSpec => []HCTypeOK
BY HttpInit, HttpStep, InvGivesTypes, PTL DEF HCSpec

LEMMA InvAccounts == HttpInv => AlertsAreAccounted
<1> SUFFICES ASSUME HttpInv PROVE AlertsAreAccounted
  OBVIOUS
<1>1. ASSUME NEW m \in Alerts
      PROVE  copies[m] <= MaxNetworkRetries * (IF message[m[1]] = "markdown" THEN 1 ELSE 2)
  <2>1. PICK c \in Crawlers, k \in Recipients : m = <<c, k>>
    BY DEF Alerts
  <2>2. AlertFits(c, k) /\ m[1] = c /\ m \in Requests
    BY <2>1 DEF HttpInv, AlertsFit, Requests
  <2>3. copies[m] \in Nat /\ failures[m] \in Nat /\ stage[m] \in Stages
    BY <2>2 DEF HttpInv, Types
  <2>4. copies[m] <= Before(c) + MaxNetworkRetries
    BY <2>1, <2>2, <2>3, HttpLimits DEF AlertFits, Before, Stages, Ended
  <2> QED
    BY <2>2, <2>3, <2>4, HttpLimits DEF Before
<1>2. ASSUME NEW c \in Crawlers, message[c] = "sent",
             NEW k \in Recipients, stage[<<c, k>>] \notin {"refused", "err"}
      PROVE  <<c, k>> \in accepted /\ copies[<<c, k>>] > 0
  BY <1>2 DEF HttpInv, AlertsFit, AlertFits, Ended
<1> QED
  BY <1>1, <1>2 DEF AlertsAreAccounted, HttpInv, PermitsFit

LEMMA ConfirmedStep == HttpInv /\ [HCNext]_hcVars => [ConfirmedGetNoMore]_hcVars
<1> SUFFICES ASSUME HttpInv, HCNext, NEW m \in accepted PROVE copies'[m] = copies[m]
  BY DEF ConfirmedGetNoMore
<1>1. m \in Alerts /\ m \in Requests /\ stage[m] = "ok"
  <2>1. m \in Alerts
    BY DEF HttpInv, Types
  <2>2. PICK c \in Crawlers, k \in Recipients : m = <<c, k>>
    BY <2>1 DEF Alerts
  <2> QED
    BY <2>1, <2>2 DEF HttpInv, AlertsFit, AlertFits, Requests
<1>2. ASSUME NEW r \in Requests, NEW arrived \in BOOLEAN, stage[r] = "wire", Received(r, arrived)
      PROVE  copies'[m] = copies[m]
  BY <1>1, <1>2 DEF Received, HttpInv, Types
<1> QED
  BY <1>2 DEF HCNext, CallSend, Joined, Acquire, RateLimited, Resume, Forbidden,
              SendFails, Answered

\* Permits suffice, every refusal of a crawler is alerted once, what is sent has reached
\* someone or failed in both forms, and who has confirmed an alert gets it no more.
THEOREM RefusalsAreAlertedOnce == HCSpec => OneAlertPerRefusal
<1>1. HCSpec => []HttpInv
  BY HttpInit, HttpStep, PTL DEF HCSpec
<1>2. HCSpec => []AlertsAreAccounted
  BY <1>1, InvAccounts, PTL
<1>3. HCSpec => [][ConfirmedGetNoMore]_hcVars
  BY <1>1, ConfirmedStep, PTL DEF HCSpec
<1> QED
  BY <1>2, <1>3 DEF OneAlertPerRefusal

-----------------------------------------------------------------------------
(* The snapshot cache, for any symbols, categories, prices and closes.     *)

\* A price that may be shown next to a close.
Near(p, c) == c > 0 => Distance(p, c) * 1000 <= c * 105

Delivered(source) == CASE source = "histock" -> HiPrices
                       [] source = "yahoo" -> YahooPrices
                       [] source = "backup" -> BackupPrices

Snapshots == [price : Nat, close : RowCloses, source : Sources \cup {"none"}]

SnapshotsTyped ==
    /\ running \in BOOLEAN /\ reloads \in 0 .. MaxReloads
    /\ snapshots \in [Symbols -> Snapshots]
    /\ closes \in [Symbols -> RefCloses]
    /\ batch = NoBatch \/ \E S \in SUBSET Symbols : batch \in Rows(S, HiPrices)
    /\ listed \in [Categories -> SUBSET Symbols]
    /\ backup \in [Symbols -> BackupPrices \cup {Idle}]
    /\ moved \subseteq Symbols

\* An entry that may be shown, where official is the official close, or 0.
Genuine(x, official, isMoved) ==
    x # NoSnapshot =>
        /\ x.price > 0 /\ x.source \in Sources
        /\ x.price \in Delivered(x.source)
        /\ isMoved \/ Near(x.price, IF official > 0 THEN official ELSE x.close)

EntriesAreGenuine ==
    \A s \in Symbols : Genuine(snapshots[s], closes[s], s \in moved)

SnapshotsInvariant == SnapshotsTyped /\ EntriesAreGenuine

LEMMA PricesAreNumbers ==
    /\ HiPrices \subseteq Nat /\ YahooPrices \subseteq Nat /\ BackupPrices \subseteq Nat
    /\ RowCloses \subseteq Nat /\ RefCloses \subseteq Nat
    /\ 0 \in RowCloses /\ 0 \in RefCloses /\ MaxReloads \in Nat
BY SnapshotAssumption

LEMMA NoSnapshotType == NoSnapshot \in Snapshots /\ NoSnapshot.close = 0
BY PricesAreNumbers DEF NoSnapshot, Snapshots

\* What a crawler makes of a plausible row may be shown.
LEMMA RowsAreGenuine ==
  ASSUME NEW s \in Symbols, NEW p \in Nat, NEW c \in RowCloses, NEW source \in Sources,
         p \in Delivered(source), IsValidPrice(s, p, c),
         NEW x, x = [price |-> p, close |-> c, source |-> source]
  PROVE  x \in Snapshots /\ x # NoSnapshot /\ Genuine(x, closes[s], FALSE)
<1>1. x.price = p /\ x.close = c /\ x.source = source
  OBVIOUS
<1>2. p > 0 /\ Near(p, IF closes[s] > 0 THEN closes[s] ELSE c)
  BY DEF IsValidPrice, GetLastClose, Near
<1>3. x \in Snapshots
  BY DEF Snapshots
<1> HIDE DEF Near
<1>4. x # NoSnapshot
  BY <1>1, <1>2 DEF NoSnapshot
<1> QED
  BY <1>1, <1>2, <1>3, <1>4 DEF Genuine

\* An entry that stays as it is, with the mark it had, may still be shown.
LEMMA KeptIsGenuine ==
  ASSUME SnapshotsInvariant, NEW s \in Symbols
  PROVE  Genuine(snapshots[s], closes[s], s \in moved)
BY DEF SnapshotsInvariant, EntriesAreGenuine

LEMMA StoreBatchKeeps ==
  ASSUME SnapshotsInvariant, StoreBatch
  PROVE  SnapshotsInvariant' /\ LeavesOnlyUnlisted
<1>1. /\ batch # NoBatch /\ batch' = NoBatch
      /\ snapshots' = [s \in Symbols |->
                        IF s \in DOMAIN batch THEN StoredOrKept(s, batch[s]) ELSE NoSnapshot]
      /\ moved' = {s \in moved : snapshots'[s] = snapshots[s] /\ Cached(s)}
      /\ UNCHANGED <<running, closes, listed, backup, reloads>>
  BY DEF StoreBatch
<1>2. SnapshotsTyped
  BY DEF SnapshotsInvariant
<1>3. PICK S \in SUBSET Symbols : batch \in Rows(S, HiPrices)
  BY <1>1, <1>2 DEF SnapshotsTyped
<1>4. DOMAIN batch = S /\ \A s \in S : batch[s] \in HiPrices \X RowCloses
  BY <1>3 DEF Rows
<1>5. ASSUME NEW s \in Symbols
      PROVE  /\ snapshots'[s] \in Snapshots
             /\ Genuine(snapshots'[s], closes[s], s \in moved')
             /\ snapshots'[s] = NoSnapshot /\ Cached(s) => s \notin DOMAIN batch
  <2>1. CASE s \notin S
    <3>1. snapshots'[s] = NoSnapshot
      BY <1>1, <1>4, <2>1
    <3> QED
      BY <1>4, <2>1, <3>1, NoSnapshotType DEF Genuine
  <2>2. CASE s \in S /\ ~IsValidPrice(s, batch[s][1], batch[s][2])
    <3>1. snapshots'[s] = snapshots[s]
      BY <1>1, <1>4, <2>2 DEF StoredOrKept
    <3>2. snapshots[s] \in Snapshots /\ Genuine(snapshots[s], closes[s], s \in moved)
      BY <1>2, KeptIsGenuine DEF SnapshotsTyped
    <3>3. Cached(s) /\ s \in moved => s \in moved'
      BY <1>1, <3>1
    <3> QED
      BY <3>1, <3>2, <3>3 DEF Genuine, Cached
  <2>3. CASE s \in S /\ IsValidPrice(s, batch[s][1], batch[s][2])
    <3>1. snapshots'[s] = [price |-> batch[s][1], close |-> batch[s][2], source |-> "histock"]
      BY <1>1, <1>4, <2>3 DEF StoredOrKept
    <3>2. batch[s][1] \in HiPrices /\ batch[s][1] \in Nat /\ batch[s][2] \in RowCloses
      BY <1>4, <2>3, PricesAreNumbers
    <3>3. "histock" \in Sources /\ Delivered("histock") = HiPrices
      BY DEF Sources, Delivered
    <3>4. /\ snapshots'[s] \in Snapshots /\ snapshots'[s] # NoSnapshot
          /\ Genuine(snapshots'[s], closes[s], FALSE)
      BY <2>3, <3>1, <3>2, <3>3, RowsAreGenuine
    <3> QED
      BY <3>4 DEF Genuine
  <2> QED
    BY <2>1, <2>2, <2>3
<1>6. SnapshotsTyped'
  <2>1. snapshots' \in [Symbols -> Snapshots]
    BY <1>1, <1>5
  <2>2. moved' \subseteq Symbols
    BY <1>1, <1>2 DEF SnapshotsTyped
  <2> QED
    BY <1>1, <1>2, <2>1, <2>2 DEF SnapshotsTyped
<1>7. EntriesAreGenuine'
  BY <1>1, <1>5 DEF EntriesAreGenuine
<1>8. LeavesOnlyUnlisted
  BY <1>1, <1>5 DEF LeavesOnlyUnlisted
<1> QED
  BY <1>6, <1>7, <1>8 DEF SnapshotsInvariant

LEMMA ApplyCategoryKeeps ==
  ASSUME SnapshotsInvariant, NEW k \in Categories, NEW S \in SUBSET Symbols,
         NEW rows \in Rows(S, YahooPrices), ApplyCategory(k, S, rows)
  PROVE  SnapshotsInvariant' /\ LeavesOnlyUnlisted
<1>1. /\ listed' = [listed EXCEPT ![k] = S]
      /\ snapshots' = [s \in Symbols |->
           IF s \in S
           THEN IF IsValidPrice(s, rows[s][1], rows[s][2])
                THEN [price |-> rows[s][1], close |-> rows[s][2], source |-> "yahoo"]
                ELSE snapshots[s]
           ELSE IF s \in listed[k] THEN NoSnapshot ELSE snapshots[s]]
      /\ moved' = {s \in moved : snapshots'[s] = snapshots[s] /\ Cached(s)}
      /\ UNCHANGED <<running, closes, batch, backup, reloads>>
  BY DEF ApplyCategory
<1>2. SnapshotsTyped
  BY DEF SnapshotsInvariant
<1>3. \A s \in S : rows[s] \in YahooPrices \X RowCloses
  BY DEF Rows
<1>4. /\ listed' \in [Categories -> SUBSET Symbols]
      /\ listed'[k] = S
  BY <1>1, <1>2 DEF SnapshotsTyped
<1>5. ASSUME NEW s \in Symbols
      PROVE  /\ snapshots'[s] \in Snapshots
             /\ Genuine(snapshots'[s], closes[s], s \in moved')
             /\ snapshots'[s] = NoSnapshot /\ Cached(s) => s \in listed[k] \ listed'[k]
  <2>1. CASE s \notin S /\ s \in listed[k]
    <3>1. snapshots'[s] = NoSnapshot
      BY <1>1, <2>1
    <3> QED
      BY <1>4, <2>1, <3>1, NoSnapshotType DEF Genuine
  <2>2. CASE IF s \in S THEN ~IsValidPrice(s, rows[s][1], rows[s][2]) ELSE s \notin listed[k]
    <3>1. snapshots'[s] = snapshots[s]
      BY <1>1, <2>2
    <3>2. snapshots[s] \in Snapshots /\ Genuine(snapshots[s], closes[s], s \in moved)
      BY <1>2, KeptIsGenuine DEF SnapshotsTyped
    <3>3. Cached(s) /\ s \in moved => s \in moved'
      BY <1>1, <3>1
    <3> QED
      BY <3>1, <3>2, <3>3 DEF Genuine, Cached
  <2>3. CASE s \in S /\ IsValidPrice(s, rows[s][1], rows[s][2])
    <3>1. snapshots'[s] = [price |-> rows[s][1], close |-> rows[s][2], source |-> "yahoo"]
      BY <1>1, <2>3
    <3>2. rows[s][1] \in YahooPrices /\ rows[s][1] \in Nat /\ rows[s][2] \in RowCloses
      BY <1>3, <2>3, PricesAreNumbers
    <3>3. "yahoo" \in Sources /\ Delivered("yahoo") = YahooPrices
      BY DEF Sources, Delivered
    <3>4. /\ snapshots'[s] \in Snapshots /\ snapshots'[s] # NoSnapshot
          /\ Genuine(snapshots'[s], closes[s], FALSE)
      BY <2>3, <3>1, <3>2, <3>3, RowsAreGenuine
    <3> QED
      BY <3>4 DEF Genuine
  <2> QED
    BY <2>1, <2>2, <2>3
<1>6. SnapshotsTyped'
  <2>1. snapshots' \in [Symbols -> Snapshots]
    BY <1>1, <1>5
  <2>2. moved' \subseteq Symbols
    BY <1>1, <1>2 DEF SnapshotsTyped
  <2> QED
    BY <1>1, <1>2, <1>4, <2>1, <2>2 DEF SnapshotsTyped
<1>7. EntriesAreGenuine'
  BY <1>1, <1>5 DEF EntriesAreGenuine
<1>8. LeavesOnlyUnlisted
  BY <1>1, <1>5 DEF LeavesOnlyUnlisted
<1> QED
  BY <1>6, <1>7, <1>8 DEF SnapshotsInvariant

LEMMA StoreBackupKeeps ==
  ASSUME SnapshotsInvariant, NEW s \in Symbols, StoreBackup(s)
  PROVE  SnapshotsInvariant' /\ LeavesOnlyUnlisted
<1>1. /\ backup[s] # Idle /\ backup' = [backup EXCEPT ![s] = Idle]
      /\ UNCHANGED <<running, closes, batch, listed, reloads>>
  BY DEF StoreBackup
<1>2. SnapshotsTyped /\ EntriesAreGenuine
  BY DEF SnapshotsInvariant
<1>3. /\ backup[s] \in BackupPrices /\ backup[s] \in Nat
      /\ backup' \in [Symbols -> BackupPrices \cup {Idle}]
  BY <1>1, <1>2, PricesAreNumbers DEF SnapshotsTyped
<1>4. CASE ~IsValidPrice(s, backup[s], snapshots[s].close)
  <2>1. UNCHANGED <<snapshots, moved>>
    BY <1>4 DEF StoreBackup
  <2>2. SnapshotsTyped'
    BY <1>1, <1>2, <1>3, <2>1 DEF SnapshotsTyped
  <2>3. EntriesAreGenuine' /\ LeavesOnlyUnlisted
    BY <1>1, <1>2, <2>1 DEF EntriesAreGenuine, LeavesOnlyUnlisted, Cached
  <2> QED
    BY <2>2, <2>3 DEF SnapshotsInvariant
<1>5. CASE IsValidPrice(s, backup[s], snapshots[s].close)
  <2>1. PICK x : x = [snapshots[s] EXCEPT !.price = backup[s], !.source = "backup"]
    OBVIOUS
  <2>2. snapshots[s] \in Snapshots /\ snapshots[s].close \in RowCloses
    BY <1>2 DEF SnapshotsTyped, Snapshots
  <2>3. x = [price |-> backup[s], close |-> snapshots[s].close, source |-> "backup"]
    BY <2>1, <2>2 DEF Snapshots
  <2>4. /\ snapshots' = [snapshots EXCEPT ![s].price = backup[s], ![s].source = "backup"]
        /\ moved' = moved \ {s}
    BY <1>5 DEF StoreBackup
  <2>5. "backup" \in Sources /\ Delivered("backup") = BackupPrices
    BY DEF Sources, Delivered
  <2>6. x \in Snapshots /\ x # NoSnapshot /\ Genuine(x, closes[s], FALSE)
    BY <1>3, <1>5, <2>2, <2>3, <2>5, RowsAreGenuine
  <2>7. snapshots' = [snapshots EXCEPT ![s] = x]
    BY <1>2, <2>1, <2>2, <2>4 DEF SnapshotsTyped, Snapshots
  <2>8. /\ snapshots' \in [Symbols -> Snapshots] /\ snapshots'[s] = x
        /\ \A v \in Symbols \ {s} : snapshots'[v] = snapshots[v]
    BY <1>2, <2>6, <2>7 DEF SnapshotsTyped
  <2>9. SnapshotsTyped'
    BY <1>1, <1>2, <1>3, <2>4, <2>8 DEF SnapshotsTyped
  <2>10. ASSUME NEW v \in Symbols PROVE Genuine(snapshots'[v], closes[v], v \in moved')
    <3>1. CASE v = s
      BY <2>6, <2>8, <3>1 DEF Genuine
    <3>2. CASE v # s
      BY <2>4, <2>8, <3>2, KeptIsGenuine DEF Genuine
    <3> QED
      BY <3>1, <3>2
  <2>11. LeavesOnlyUnlisted
    BY <2>6, <2>8 DEF LeavesOnlyUnlisted, Cached
  <2> QED
    BY <1>1, <2>9, <2>10, <2>11 DEF SnapshotsInvariant, EntriesAreGenuine
<1> QED
  BY <1>4, <1>5

LEMMA StopCrawlersKeeps ==
  ASSUME SnapshotsInvariant, StopCrawlers
  PROVE  SnapshotsInvariant' /\ LeavesOnlyUnlisted
<1>1. SnapshotsTyped'
  BY NoSnapshotType DEF SnapshotsInvariant, SnapshotsTyped, StopCrawlers
<1>2. EntriesAreGenuine'
  BY DEF EntriesAreGenuine, Genuine, StopCrawlers
<1>3. LeavesOnlyUnlisted
  BY DEF LeavesOnlyUnlisted, StopCrawlers
<1> QED
  BY <1>1, <1>2, <1>3 DEF SnapshotsInvariant

\* A symbol with a newer official close is not measured by it until its price is.
LEMMA ReloadCloseKeeps ==
  ASSUME SnapshotsInvariant, NEW s \in Symbols, NEW c \in RefCloses, ReloadClose(s, c)
  PROVE  SnapshotsInvariant' /\ LeavesOnlyUnlisted
<1>1. /\ reloads < MaxReloads /\ reloads' = reloads + 1
      /\ closes' = [closes EXCEPT ![s] = c]
      /\ moved' = IF Cached(s) THEN moved \cup {s} ELSE moved
      /\ UNCHANGED <<running, snapshots, batch, listed, backup>>
  BY DEF ReloadClose
<1>2. SnapshotsTyped
  BY DEF SnapshotsInvariant
<1>3. reloads' \in 0 .. MaxReloads
  BY <1>1, <1>2, PricesAreNumbers DEF SnapshotsTyped
<1>4. SnapshotsTyped'
  BY <1>1, <1>2, <1>3 DEF SnapshotsTyped
<1>5. ASSUME NEW v \in Symbols PROVE Genuine(snapshots'[v], closes'[v], v \in moved')
  <2>1. CASE v = s /\ Cached(s)
    BY <1>1, <2>1, KeptIsGenuine DEF Genuine
  <2>2. CASE v = s /\ ~Cached(s)
    BY <1>1, <2>2 DEF Genuine, Cached
  <2>3. CASE v # s
    <3>1. closes'[v] = closes[v] /\ snapshots'[v] = snapshots[v] /\ (v \in moved <=> v \in moved')
      BY <1>1, <1>2, <2>3 DEF SnapshotsTyped
    <3> QED
      BY <3>1, KeptIsGenuine DEF Genuine
  <2> QED
    BY <2>1, <2>2, <2>3
<1>6. LeavesOnlyUnlisted
  BY <1>1 DEF LeavesOnlyUnlisted, Cached
<1> QED
  BY <1>4, <1>5, <1>6 DEF SnapshotsInvariant, EntriesAreGenuine

\* Fetching, comparing and starting leave the cache as it is.
LEMMA CacheUntouched ==
  ASSUME SnapshotsInvariant, UNCHANGED <<snapshots, closes, moved, listed, reloads>>,
         running' \in BOOLEAN,
         batch' = NoBatch \/ \E S \in SUBSET Symbols : batch' \in Rows(S, HiPrices),
         backup' \in [Symbols -> BackupPrices \cup {Idle}]
  PROVE  SnapshotsInvariant' /\ LeavesOnlyUnlisted
<1>1. SnapshotsTyped'
  BY DEF SnapshotsInvariant, SnapshotsTyped
<1>2. EntriesAreGenuine' /\ LeavesOnlyUnlisted
  BY DEF SnapshotsInvariant, EntriesAreGenuine, LeavesOnlyUnlisted, Cached
<1> QED
  BY <1>1, <1>2 DEF SnapshotsInvariant

LEMMA SnapshotsStart == SCInit => SnapshotsInvariant
<1> SUFFICES ASSUME SCInit PROVE SnapshotsInvariant
  OBVIOUS
<1>1. SnapshotsTyped
  <2>1. reloads \in 0 .. MaxReloads
    BY PricesAreNumbers DEF SCInit
  <2> QED
    BY <2>1, NoSnapshotType DEF SCInit, SnapshotsTyped
<1>2. EntriesAreGenuine
  BY DEF SCInit, EntriesAreGenuine, Genuine
<1> QED
  BY <1>1, <1>2 DEF SnapshotsInvariant

LEMMA SnapshotsKeep ==
  ASSUME SnapshotsInvariant, SCNext
  PROVE  SnapshotsInvariant' /\ LeavesOnlyUnlisted
<1>1. ASSUME NEW S \in (SUBSET Symbols) \ {{}}, NEW rows \in Rows(S, HiPrices), FetchBatch(S, rows)
      PROVE  SnapshotsInvariant' /\ LeavesOnlyUnlisted
  <2>1. batch' \in Rows(S, HiPrices) /\ S \in SUBSET Symbols
    BY <1>1 DEF FetchBatch
  <2>2. running' \in BOOLEAN /\ backup' \in [Symbols -> BackupPrices \cup {Idle}]
    BY <1>1 DEF FetchBatch, SnapshotsInvariant, SnapshotsTyped
  <2>3. UNCHANGED <<snapshots, closes, moved, listed, reloads>>
    BY <1>1 DEF FetchBatch
  <2> QED
    BY <2>1, <2>2, <2>3, CacheUntouched
<1>2. ASSUME NEW s \in Symbols, NEW p \in BackupPrices, CompareBackup(s, p)
      PROVE  SnapshotsInvariant' /\ LeavesOnlyUnlisted
  <2>1. UNCHANGED <<snapshots, closes, moved, listed, reloads, running, batch>>
    BY <1>2 DEF CompareBackup
  <2>2. running' \in BOOLEAN /\ backup' \in [Symbols -> BackupPrices \cup {Idle}]
    BY <1>2 DEF CompareBackup, SnapshotsInvariant, SnapshotsTyped
  <2>3. batch' = NoBatch \/ \E S \in SUBSET Symbols : batch' \in Rows(S, HiPrices)
    BY <2>1 DEF SnapshotsInvariant, SnapshotsTyped
  <2> QED
    BY <2>1, <2>2, <2>3, CacheUntouched
<1>3. ASSUME StartCrawlers PROVE SnapshotsInvariant' /\ LeavesOnlyUnlisted
  <2>1. UNCHANGED <<snapshots, closes, moved, listed, reloads, backup, batch>> /\ running' \in BOOLEAN
    BY <1>3 DEF StartCrawlers
  <2>2. /\ backup' \in [Symbols -> BackupPrices \cup {Idle}]
        /\ batch' = NoBatch \/ \E S \in SUBSET Symbols : batch' \in Rows(S, HiPrices)
    BY <2>1 DEF SnapshotsInvariant, SnapshotsTyped
  <2> QED
    BY <2>1, <2>2, CacheUntouched
<1> QED
  BY <1>1, <1>2, <1>3, StoreBatchKeeps, ApplyCategoryKeeps, StoreBackupKeeps,
     ReloadCloseKeeps, StopCrawlersKeeps DEF SCNext

LEMMA SnapshotsInductive == SnapshotsInvariant /\ [SCNext]_scVars => SnapshotsInvariant'
<1>1. ASSUME SnapshotsInvariant, UNCHANGED scVars PROVE SnapshotsInvariant'
  BY <1>1 DEF scVars, SnapshotsInvariant, SnapshotsTyped, EntriesAreGenuine
<1> QED
  BY <1>1, SnapshotsKeep

\* What the invariant says of an entry is what its readers rely on.
LEMMA SnapshotsFit == SnapshotsInvariant => SCTypeOK /\ SnapshotsAreGenuine
<1> SUFFICES ASSUME SnapshotsInvariant PROVE SCTypeOK /\ SnapshotsAreGenuine
  OBVIOUS
<1>1. SnapshotsTyped /\ EntriesAreGenuine
  BY DEF SnapshotsInvariant
<1>2. ASSUME NEW s \in Symbols, Cached(s)
      PROVE  /\ snapshots[s].price > 0 /\ snapshots[s].close \in RowCloses
             /\ snapshots[s].source \in Sources
             /\ snapshots[s].price \in Delivered(snapshots[s].source)
             /\ s \notin moved => Near(snapshots[s].price,
                                       IF closes[s] > 0 THEN closes[s] ELSE snapshots[s].close)
  BY <1>1, <1>2 DEF SnapshotsTyped, EntriesAreGenuine, Genuine, Cached, Snapshots
<1>3. SCTypeOK
  <2>1. batch = NoBatch \/ batch \in UNION {Rows(S, HiPrices) : S \in SUBSET Symbols}
    BY <1>1 DEF SnapshotsTyped
  <2> QED
    BY <1>1, <1>2, <2>1 DEF SnapshotsTyped, SCTypeOK
<1>4. SourceSuppliedPrice
  BY <1>2 DEF SourceSuppliedPrice, Delivered
<1>5. SnapshotsArePlausible
  <2>1. ASSUME NEW s \in Symbols, Cached(s), s \notin moved
        PROVE  LET c == IF closes[s] > 0 THEN closes[s] ELSE snapshots[s].close IN
                   c > 0 => Distance(snapshots[s].price, c) * 1000 <= c * 105
    BY <1>2, <2>1 DEF Near
  <2> QED
    BY <2>1 DEF SnapshotsArePlausible
<1> QED
  BY <1>3, <1>4, <1>5 DEF SnapshotsAreGenuine

\* SCTypeOK, for any symbols, categories, prices and closes: every entry of the cache has
\* a price and a close its readers can convert.
THEOREM SnapshotsTypeCorrect == SCSpec => []SCTypeOK
BY SnapshotsInductive, SnapshotsStart, SnapshotsFit, PTL DEF SCSpec

\* SnapshotsAreKept, for any symbols, categories, prices and closes: however the writers
\* of the cache interleave, what a step leaves in it may be shown, and an entry goes only
\* if its source lists it no longer or the session ends.
THEOREM SnapshotsKept == SCSpec => SnapshotsAreKept
<1>1. SnapshotsInvariant /\ SnapshotsInvariant' /\ [SCNext]_scVars
        => [SnapshotsAreGenuine' /\ LeavesOnlyUnlisted]_scVars
  <2>1. SnapshotsInvariant' => SnapshotsAreGenuine'
    BY SnapshotsFit, PTL
  <2> QED
    BY <2>1, SnapshotsKeep
<1> QED
  BY <1>1, SnapshotsInductive, SnapshotsStart, PTL DEF SCSpec, SnapshotsAreKept

-----------------------------------------------------------------------------
(* The registry of stocks, for any stocks, markets and weights.            *)

StockRows == [market : Markets, suspended : BOOLEAN, weight : Weights]

Saves == [symbol : Securities, row : StockRows, tells : BOOLEAN, written : BOOLEAN,
          stale : BOOLEAN]

Marks == [symbol : Securities, row : StockRows, stale : BOOLEAN]

RegistryTyped ==
    /\ listing \in [Securities -> Markets \cup {Gone}]
    /\ table \in [Securities -> StockRows \cup {NoRow}]
    /\ cache \in [Securities -> StockRows \cup {NoRow}]
    /\ items \in [Markets -> SUBSET Securities]
    /\ saver \in [Savers -> Saves \cup {Free}]
    /\ roster \subseteq Securities /\ fetched \in 0 .. LastMarket + 1
    /\ missing \subseteq Marks /\ IsFiniteSet(missing) /\ Cardinality(missing) <= MaxDelist
    /\ published \in [Securities -> Weights]
    /\ announced \in [Securities -> Markets \cup {0}]

LEMMA RegistryLimits ==
    /\ LastMarket \in Nat \ {0} /\ Markets = 1 .. LastMarket
    /\ \A m \in Markets : m \in Nat \ {0}
    /\ 0 \in Weights /\ IsFiniteSet(Securities) /\ MaxDelist \in Nat
    /\ Holdings \notin Markets /\ Delist \notin Markets /\ Holdings # Delist
    /\ Markets \subseteq Savers /\ Holdings \in Savers /\ Delist \in Savers
<1>1. LastMarket \in Nat /\ Markets = 1 .. LastMarket
  BY RegistryAssumption, FS_CardinalityType DEF LastMarket
<1>2. LastMarket # 0
  BY <1>1, RegistryAssumption
<1>3. 0 \in Weights /\ IsFiniteSet(Securities) /\ MaxDelist \in Nat
  BY RegistryAssumption
<1>4. /\ \A m \in Markets : m \in Nat \ {0}
      /\ LastMarket + 1 \notin Markets /\ LastMarket + 2 \notin Markets
  BY <1>1
<1> QED
  BY <1>1, <1>2, <1>3, <1>4 DEF Holdings, Delist, Savers

LEMMA SavesAreNotFree == \A x \in Saves : x # Free
<1>1. ASSUME NEW x \in Saves PROVE x # Free
  <2>1. "row" \in DOMAIN x
    BY DEF Saves
  <2>2. "row" \notin DOMAIN Free
    BY DEF Free
  <2> QED
    BY <2>1, <2>2
<1> QED
  BY <1>1

LEMMA NoRowIsNone ==
    /\ NoRow \notin StockRows
    /\ NoRow.market = 0 /\ NoRow.suspended = FALSE /\ NoRow.weight = 0
    /\ \A x \in StockRows : x.market # 0
BY RegistryLimits DEF NoRow, StockRows

\* What an update makes of the columns of a row.
LEMMA MarketChanged ==
  ASSUME NEW x \in StockRows \cup {NoRow}, NEW m \in Markets
  PROVE  /\ [x EXCEPT !.market = m] \in StockRows
         /\ [x EXCEPT !.market = m].market = m
         /\ [x EXCEPT !.market = m].suspended = x.suspended
<1>1. x \in [market : Markets \cup {0}, suspended : BOOLEAN, weight : Weights]
  <2>1. CASE x = NoRow
    BY <2>1, RegistryLimits DEF NoRow
  <2>2. CASE x \in StockRows
    BY <2>2 DEF StockRows
  <2> QED
    BY <2>1, <2>2
<1> QED
  BY <1>1 DEF StockRows

LEMMA RowSuspended ==
  ASSUME NEW x \in StockRows
  PROVE  /\ [x EXCEPT !.suspended = TRUE] \in StockRows
         /\ [x EXCEPT !.suspended = TRUE].market = x.market
         /\ [x EXCEPT !.suspended = TRUE].suspended = TRUE
BY DEF StockRows

LEMMA RowWeighed ==
  ASSUME NEW x \in StockRows, NEW weight \in Weights
  PROVE  /\ [x EXCEPT !.weight = weight] \in StockRows
         /\ [x EXCEPT !.weight = weight].market = x.market
         /\ [x EXCEPT !.weight = weight].suspended = x.suspended
BY DEF StockRows

\* The copy of a stock that FindBySymbol returns.
LEMMA FoundRow ==
  ASSUME RegistryTyped, NEW s \in Securities
  PROVE  FindBySymbol(s) \in StockRows \cup {NoRow}
BY DEF RegistryTyped, FindBySymbol

LEMMA Images ==
  ASSUME NEW S, IsFiniteSet(S), NEW f
  PROVE  IsFiniteSet({f[x] : x \in S}) /\ Cardinality({f[x] : x \in S}) <= Cardinality(S)
<1> DEFINE g == [x \in S |-> f[x]]
<1>1. g \in Surjection(S, {f[x] : x \in S})
  BY DEF Surjection
<1> QED
  BY <1>1, FS_Surjection

-----------------------------------------------------------------------------
(* Types.                                                                  *)

\* A save that begins.
Began(w, x) ==
    /\ saver[w] = Free /\ saver' = [saver EXCEPT ![w] = x]
    /\ x \in Saves /\ x.written = FALSE

LEMMA BeginStarts ==
  ASSUME RegistryTyped, NEW w \in Savers, NEW s \in Securities, NEW row \in StockRows,
         NEW tells \in BOOLEAN, Begin(w, s, row, tells)
  PROVE  \E x \in Saves : /\ Began(w, x) /\ x.symbol = s /\ x.row = row /\ x.tells = tells
                          /\ x.stale = Written(s)
<1> PICK b \in BOOLEAN : b = Written(s)
  BY DEF Written
<1> DEFINE x == [symbol |-> s, row |-> row, tells |-> tells, written |-> FALSE, stale |-> b]
<1>1. x \in Saves
  BY DEF Saves
<1>2. saver[w] = Free /\ saver' = [saver EXCEPT ![w] = x]
  BY DEF Begin
<1> QED
  BY <1>1, <1>2 DEF Began

\* Whatever else it does, an action that begins a save of the registry keeps these types.
LEMMA BeganTyped ==
  ASSUME RegistryTyped, NEW w \in Savers, NEW x, Began(w, x)
  PROVE  saver' \in [Savers -> Saves \cup {Free}]
BY DEF RegistryTyped, Began

LEMMA SmallerMissing ==
  ASSUME RegistryTyped, missing' \subseteq missing
  PROVE  missing' \subseteq Marks /\ IsFiniteSet(missing') /\ Cardinality(missing') <= MaxDelist
<1>1. missing \subseteq Marks /\ IsFiniteSet(missing) /\ Cardinality(missing) <= MaxDelist
  BY DEF RegistryTyped
<1> PICK a \in Nat : a = Cardinality(missing)
  BY <1>1, FS_CardinalityType
<1>2. IsFiniteSet(missing') /\ Cardinality(missing') <= a
  BY <1>1, FS_Subset
<1>3. Cardinality(missing') \in Nat
  BY <1>2, FS_CardinalityType
<1>4. Cardinality(missing') <= MaxDelist
  BY <1>1, <1>2, <1>3, RegistryLimits
<1> QED
  BY <1>1, <1>2, <1>4

\* ProcessItem, ChangeHoldings and DelistOfficially begin at most one save, of a copy of
\* the stock; MarkMissing begins one of what it has read.
LEMMA ProcessItemBegins ==
  ASSUME RegistryTyped, NEW m \in Markets, NEW s \in Securities, ProcessItem(m, s)
  PROVE  \/ UNCHANGED saver
         \/ \E x \in Saves : /\ Began(m, x) /\ x.symbol = s /\ x.row.market = m
                             /\ x.row.suspended = FindBySymbol(s).suspended
                             /\ (x.tells <=> FindBySymbol(s).market # m)
                             /\ (x.stale <=> Written(s))
<1>1. CASE saver' # saver
  <2>1. Begin(m, s, [FindBySymbol(s) EXCEPT !.market = m], FindBySymbol(s).market # m)
    BY <1>1 DEF ProcessItem
  <2>2. PICK found : found = FindBySymbol(s)
    OBVIOUS
  <2>3. found \in StockRows \cup {NoRow}
    BY <2>2, FoundRow
  <2>4. PICK row : row = [found EXCEPT !.market = m]
    OBVIOUS
  <2>5. row \in StockRows /\ row.market = m /\ row.suspended = found.suspended
    BY <2>3, <2>4, MarketChanged
  <2>6. PICK tells \in BOOLEAN : tells = (found.market # m)
    OBVIOUS
  <2>7. Begin(m, s, row, tells) /\ m \in Savers
    BY <2>1, <2>2, <2>4, <2>6, RegistryLimits
  <2>8. PICK x \in Saves : /\ Began(m, x) /\ x.symbol = s /\ x.row = row /\ x.tells = tells
                           /\ x.stale = Written(s)
    BY <2>5, <2>7, BeginStarts
  <2> QED
    BY <2>2, <2>5, <2>6, <2>8
<1> QED
  BY <1>1

LEMMA ChangeHoldingsBegins ==
  ASSUME RegistryTyped, NEW s \in Securities, ChangeHoldings(s)
  PROVE  \E x \in Saves : /\ Began(Holdings, x) /\ x.symbol = s /\ x.row = FindBySymbol(s)
                          /\ (x.stale <=> Written(s))
<1>1. FindBySymbol(s) \in StockRows /\ Begin(Holdings, s, FindBySymbol(s), FALSE)
  BY FoundRow DEF ChangeHoldings
<1> PICK tells \in BOOLEAN : tells = FALSE
  OBVIOUS
<1>2. Holdings \in Savers /\ Begin(Holdings, s, FindBySymbol(s), tells)
  BY <1>1, RegistryLimits
<1>3. PICK x \in Saves : /\ Began(Holdings, x) /\ x.symbol = s /\ x.row = FindBySymbol(s)
                         /\ x.stale = Written(s)
  BY <1>1, <1>2, BeginStarts
<1> QED
  BY <1>3

LEMMA DelistOfficiallyBegins ==
  ASSUME RegistryTyped, NEW s \in Securities, DelistOfficially(s)
  PROVE  \E x \in Saves : /\ Began(Delist, x) /\ x.symbol = s
                          /\ x.row.market = FindBySymbol(s).market /\ x.row.suspended = TRUE
                          /\ (x.stale <=> Written(s))
<1>1. PICK found : found = FindBySymbol(s)
  OBVIOUS
<1>2. found \in StockRows /\ Begin(Delist, s, [found EXCEPT !.suspended = TRUE], FALSE)
  BY <1>1, FoundRow DEF DelistOfficially
<1>3. PICK row : row = [found EXCEPT !.suspended = TRUE]
  OBVIOUS
<1>4. row \in StockRows /\ row.market = found.market /\ row.suspended = TRUE
  BY <1>2, <1>3, RowSuspended
<1> PICK tells \in BOOLEAN : tells = FALSE
  OBVIOUS
<1>5. Begin(Delist, s, row, tells) /\ Delist \in Savers
  BY <1>2, <1>3, RegistryLimits
<1>6. PICK x \in Saves : /\ Began(Delist, x) /\ x.symbol = s /\ x.row = row
                         /\ x.stale = Written(s)
  BY <1>4, <1>5, BeginStarts
<1> QED
  BY <1>1, <1>4, <1>6

LEMMA MarkMissingBegins ==
  ASSUME RegistryTyped, NEW y \in missing, MarkMissing(y)
  PROVE  /\ y \in Marks
         /\ \E x \in Saves : /\ Began(Delist, x) /\ x.symbol = y.symbol
                             /\ x.row.market = y.row.market /\ x.row.suspended = TRUE
                             /\ x.stale = y.stale
<1>1. y \in Marks /\ y.symbol \in Securities /\ y.row \in StockRows /\ y.stale \in BOOLEAN
  BY DEF RegistryTyped, Marks
<1>2. PICK row : row = [y.row EXCEPT !.suspended = TRUE]
  OBVIOUS
<1>3. row \in StockRows /\ row.market = y.row.market /\ row.suspended = TRUE
  BY <1>1, <1>2, RowSuspended
<1> DEFINE x == [symbol |-> y.symbol, row |-> row, tells |-> FALSE, written |-> FALSE,
                 stale |-> y.stale]
<1>4. x \in Saves
  BY <1>1, <1>3 DEF Saves
<1>5. Began(Delist, x)
  BY <1>2, <1>4 DEF MarkMissing, Began
<1> QED
  BY <1>1, <1>3, <1>4, <1>5

\* The save of x in v, marked as outdated.
Marked(x, y) ==
    /\ y \in Saves /\ y.stale = TRUE
    /\ y.symbol = x.symbol /\ y.row = x.row /\ y.tells = x.tells /\ y.written = x.written

\* What WriteRow does: the other copies of the stock are outdated from now on.
RowWritten(w, x, s) ==
    /\ x = saver[w] /\ s = x.symbol
    /\ x \in Saves /\ s \in Securities /\ x.written = FALSE
    /\ table' = [table EXCEPT ![s] = x.row]
    /\ saver' \in [Savers -> Saves \cup {Free}]
    /\ saver'[w] \in Saves /\ saver'[w].written = TRUE
    /\ saver'[w].symbol = s /\ saver'[w].row = x.row /\ saver'[w].tells = x.tells
    /\ \A v \in Savers \ {w} :
          IF saver[v] # Free /\ saver[v].symbol = s
          THEN Marked(saver[v], saver'[v]) ELSE saver'[v] = saver[v]

LEMMA RowIsWritten ==
  ASSUME RegistryTyped, NEW w \in Savers, WriteRow(w)
  PROVE  \E x, s : RowWritten(w, x, s)
<1> PICK x : x = saver[w]
  OBVIOUS
<1> PICK s : s = x.symbol
  OBVIOUS
<1>1. x \in Saves /\ s \in Securities /\ x.written = FALSE
  BY DEF WriteRow, RegistryTyped, Saves
<1>2. table' = [table EXCEPT ![s] = x.row]
  BY DEF WriteRow
<1>3. saver' = [v \in Savers |->
           IF v = w THEN [saver[v] EXCEPT !.written = TRUE]
           ELSE IF v # w /\ saver[v] # Free /\ saver[v].symbol = s
                THEN [saver[v] EXCEPT !.stale = TRUE] ELSE saver[v]]
  BY DEF WriteRow
<1>4. \A v \in Savers : saver[v] \in Saves \cup {Free}
  BY DEF RegistryTyped
<1>5. PICK y : y = [x EXCEPT !.written = TRUE]
  OBVIOUS
<1>6. /\ y \in Saves /\ y.written = TRUE
      /\ y.symbol = s /\ y.row = x.row /\ y.tells = x.tells
  BY <1>1, <1>5 DEF Saves
<1>7. saver'[w] = y
  BY <1>3, <1>5
<1>8. ASSUME NEW v \in Savers \ {w}
      PROVE  /\ saver'[v] \in Saves \cup {Free}
             /\ IF saver[v] # Free /\ saver[v].symbol = s
                THEN Marked(saver[v], saver'[v]) ELSE saver'[v] = saver[v]
  <2>1. CASE saver[v] # Free /\ saver[v].symbol = s
    <3>1. PICK z : z = saver[v]
      OBVIOUS
    <3>2. z \in Saves
      BY <1>4, <2>1, <3>1
    <3>3. saver'[v] = [z EXCEPT !.stale = TRUE]
      BY <1>3, <2>1, <3>1
    <3>4. Marked(z, saver'[v])
      BY <3>2, <3>3 DEF Marked, Saves
    <3> QED
      BY <2>1, <3>1, <3>4 DEF Marked
  <2>2. CASE ~(saver[v] # Free /\ saver[v].symbol = s)
    BY <1>3, <1>4, <2>2
  <2> QED
    BY <2>1, <2>2
<1>9. saver' \in [Savers -> Saves \cup {Free}]
  <2>1. \A v \in Savers : saver'[v] \in Saves \cup {Free}
    BY <1>6, <1>7, <1>8
  <2> QED
    BY <1>3, <2>1
<1>10. RowWritten(w, x, s)
  BY <1>1, <1>2, <1>6, <1>7, <1>8, <1>9 DEF RowWritten
<1> QED
  BY <1>10

MissingMarked(s) ==
    \A y \in missing' : \E z \in missing :
        /\ y.symbol = z.symbol /\ y.row = z.row
        /\ y.symbol = s => y.stale = TRUE
        /\ y.stale = FALSE => z.stale = FALSE

LEMMA WriteMarksMissing ==
  ASSUME RegistryTyped, NEW w \in Savers, WriteRow(w), NEW s, s = saver[w].symbol
  PROVE  /\ missing' \subseteq Marks /\ IsFiniteSet(missing') /\ Cardinality(missing') <= MaxDelist
         /\ MissingMarked(s)
<1> DEFINE after == [z \in missing |-> IF z.symbol = s THEN [z EXCEPT !.stale = TRUE] ELSE z]
<1>1. missing' = {after[z] : z \in missing}
  BY DEF WriteRow
<1>2. ASSUME NEW z \in missing
      PROVE  /\ after[z] \in Marks /\ after[z].symbol = z.symbol /\ after[z].row = z.row
             /\ z.symbol = s => after[z].stale = TRUE
             /\ after[z].stale = FALSE => z.stale = FALSE
  <2>1. z \in Marks
    BY DEF RegistryTyped
  <2> QED
    BY <2>1 DEF Marks
<1>3. missing \subseteq Marks /\ IsFiniteSet(missing) /\ Cardinality(missing) <= MaxDelist
  BY DEF RegistryTyped
<1> HIDE DEF after
<1>4. IsFiniteSet(missing') /\ Cardinality(missing') <= Cardinality(missing)
  BY <1>1, <1>3, Images
<1>5. Cardinality(missing') <= MaxDelist
  <2>1. PICK a \in Nat, b \in Nat : a = Cardinality(missing) /\ b = Cardinality(missing')
    BY <1>3, <1>4, FS_CardinalityType
  <2> QED
    BY <1>3, <1>4, <2>1, RegistryLimits
<1>6. ASSUME NEW y \in missing'
      PROVE  /\ y \in Marks
             /\ \E z \in missing :
                   /\ y.symbol = z.symbol /\ y.row = z.row
                   /\ y.symbol = s => y.stale = TRUE
                   /\ y.stale = FALSE => z.stale = FALSE
  <2>1. PICK z \in missing : y = after[z]
    BY <1>1
  <2> QED
    BY <1>2, <2>1
<1>7. missing' \subseteq Marks
  BY <1>6
<1> QED
  BY <1>4, <1>5, <1>6, <1>7 DEF MissingMarked

\* What is torn is torn for good; a write tears its stock if the copy is outdated or
\* another save of it is on its way to the cache.
LEMMA WriteTears ==
  ASSUME RegistryTyped, NEW w \in Savers, WriteRow(w), NEW s, s = saver[w].symbol
  PROVE  /\ torn \subseteq torn' /\ torn' \subseteq torn \cup {s}
         /\ s \notin torn' =>
               /\ saver[w].stale = FALSE
               /\ \A v \in Savers \ {w} : ~(saver[v] # Free /\ saver[v].symbol = s /\ saver[v].written)
<1>1. saver[w] \in Saves
  BY DEF WriteRow, RegistryTyped
<1>2. saver[w].stale \in BOOLEAN
  BY <1>1 DEF Saves
<1> QED
  BY <1>2 DEF WriteRow

\* The other steps of a save.
LEMMA FailedTyped ==
  ASSUME RegistryTyped, NEW w \in Savers, SaveFails(w) \/ WriteCache(w)
  PROVE  /\ saver[w] \in Saves /\ saver' = [saver EXCEPT ![w] = Free]
         /\ saver' \in [Savers -> Saves \cup {Free}]
         /\ UNCHANGED <<listing, table, items, roster, fetched, missing, published, refresh,
                        gone, moving, torn>>
BY DEF SaveFails, WriteCache, RegistryTyped

\* The weights are written behind all others.
LEMMA WeightsTyped ==
  ASSUME RegistryTyped,
         \/ \E weights \in [Securities -> Weights] : ZeroWeights(weights)
         \/ \E s \in Securities : UpdateWeight(s)
  PROVE  /\ \A s \in Securities :
               /\ table'[s] \in StockRows \cup {NoRow}
               /\ table'[s].market = table[s].market /\ table'[s].suspended = table[s].suspended
         /\ table' \in [Securities -> StockRows \cup {NoRow}]
         /\ published' \in [Securities -> Weights]
         /\ UNCHANGED <<listing, cache, items, saver, roster, fetched, missing, announced,
                        gone, moving, torn, unheard>>
<1>1. CASE \E weights \in [Securities -> Weights] : ZeroWeights(weights)
  <2>1. /\ table' = [s \in Securities |-> IF Known(s) THEN [table[s] EXCEPT !.weight = 0] ELSE NoRow]
        /\ published' \in [Securities -> Weights]
        /\ UNCHANGED <<listing, cache, items, saver, roster, fetched, missing, announced,
                       gone, moving, torn, unheard>>
    BY <1>1 DEF ZeroWeights
  <2>2. ASSUME NEW s \in Securities
        PROVE  /\ table'[s] \in StockRows \cup {NoRow}
               /\ table'[s].market = table[s].market /\ table'[s].suspended = table[s].suspended
    <3>1. CASE Known(s)
      <4>1. table[s] \in StockRows /\ table'[s] = [table[s] EXCEPT !.weight = 0]
        BY <2>1, <3>1 DEF Known, RegistryTyped
      <4> QED
        BY <4>1, RowWeighed, RegistryLimits
    <3>2. CASE ~Known(s)
      BY <2>1, <3>2 DEF Known
    <3> QED
      BY <3>1, <3>2
  <2> QED
    BY <2>1, <2>2
<1>2. CASE \E s \in Securities : UpdateWeight(s)
  <2>1. PICK t \in Securities : UpdateWeight(t)
    BY <1>2
  <2>2. /\ UNCHANGED <<listing, cache, items, saver, roster, fetched, missing, announced,
                       gone, moving, torn, unheard, published>>
        /\ published' \in [Securities -> Weights] /\ published[t] \in Weights
    BY <2>1 DEF UpdateWeight, RegistryTyped
  <2>3. CASE UNCHANGED table
    BY <2>2, <2>3 DEF RegistryTyped
  <2>4. CASE Known(t) /\ table' = [table EXCEPT ![t].weight = published[t]]
    <3>1. PICK row : row = [table[t] EXCEPT !.weight = published[t]]
      OBVIOUS
    <3>2. table[t] \in StockRows /\ table \in [Securities -> StockRows \cup {NoRow}]
      BY <2>4 DEF Known, RegistryTyped
    <3>3. row \in StockRows /\ row.market = table[t].market /\ row.suspended = table[t].suspended
      BY <2>2, <3>1, <3>2, RowWeighed
    <3>4. table' = [table EXCEPT ![t] = row]
      BY <2>4, <3>1
    <3> QED
      BY <2>2, <3>2, <3>3, <3>4
  <2> QED
    BY <2>1, <2>3, <2>4 DEF UpdateWeight
<1> QED
  BY <1>1, <1>2

LEMMA ListingTyped ==
  ASSUME RegistryTyped, NEW s \in Securities, NEW m \in Markets \cup {Gone}, Move(s, m)
  PROVE  RegistryTyped'
BY DEF RegistryTyped, Move

LEMMA BeginningTyped ==
  ASSUME RegistryTyped,
         \/ \E m \in Markets, s \in Securities : ProcessItem(m, s)
         \/ \E s \in Securities : ChangeHoldings(s) \/ DelistOfficially(s)
         \/ \E y \in missing : MarkMissing(y)
  PROVE  RegistryTyped'
<1>1. saver' \in [Savers -> Saves \cup {Free}]
  <2>1. ASSUME NEW m \in Markets, NEW s \in Securities, ProcessItem(m, s)
        PROVE  saver' \in [Savers -> Saves \cup {Free}]
    <3>1. CASE UNCHANGED saver
      BY <3>1 DEF RegistryTyped
    <3>2. CASE saver' # saver
      <4>1. PICK x : Began(m, x)
        BY <2>1, <3>2, ProcessItemBegins
      <4> QED
        BY <4>1, BeganTyped, RegistryLimits
    <3> QED
      BY <3>1, <3>2
  <2>2. ASSUME NEW s \in Securities, ChangeHoldings(s)
        PROVE  saver' \in [Savers -> Saves \cup {Free}]
    <3>1. PICK x : Began(Holdings, x)
      BY <2>2, ChangeHoldingsBegins
    <3> QED
      BY <3>1, BeganTyped, RegistryLimits
  <2>3. ASSUME NEW s \in Securities, DelistOfficially(s)
        PROVE  saver' \in [Savers -> Saves \cup {Free}]
    <3>1. PICK x : Began(Delist, x)
      BY <2>3, DelistOfficiallyBegins
    <3> QED
      BY <3>1, BeganTyped, RegistryLimits
  <2>4. ASSUME NEW y \in missing, MarkMissing(y)
        PROVE  saver' \in [Savers -> Saves \cup {Free}]
    <3>1. PICK x : Began(Delist, x)
      BY <2>4, MarkMissingBegins
    <3> QED
      BY <3>1, BeganTyped, RegistryLimits
  <2> QED
    BY <2>1, <2>2, <2>3, <2>4
<1>2. /\ missing' \subseteq missing
      /\ UNCHANGED <<listing, table, cache, published, announced>>
      /\ roster' \in {roster, {}} /\ fetched' \in {fetched, 0}
  BY DEF ProcessItem, ChangeHoldings, DelistOfficially, MarkMissing, EndDelisting
<1>3. items' \in [Markets -> SUBSET Securities]
  <2>1. items \in [Markets -> SUBSET Securities]
    BY DEF RegistryTyped
  <2>2. UNCHANGED items \/ \E m \in Markets, s \in Securities : items' = [items EXCEPT ![m] = @ \ {s}]
    BY DEF ProcessItem, ChangeHoldings, DelistOfficially, MarkMissing
  <2> QED
    BY <2>1, <2>2
<1>4. missing' \subseteq Marks /\ IsFiniteSet(missing') /\ Cardinality(missing') <= MaxDelist
  BY <1>2, SmallerMissing
<1>5. fetched' \in 0 .. LastMarket + 1 /\ roster' \subseteq Securities
  BY <1>2, RegistryLimits DEF RegistryTyped
<1> QED
  BY <1>1, <1>2, <1>3, <1>4, <1>5 DEF RegistryTyped

LEMMA DelistingTyped ==
  ASSUME RegistryTyped, FetchRoster \/ RosterFails \/ (\E m \in Markets : FetchItems(m))
  PROVE  RegistryTyped'
<1>1. /\ roster' \subseteq Securities
      /\ \/ fetched' \in {fetched, 0}
         \/ fetched' = fetched + 1 /\ fetched < LastMarket
      /\ UNCHANGED <<listing, table, cache, saver, missing, published, announced>>
  BY DEF FetchRoster, RosterFails, FetchItems, EndDelisting, RegistryTyped
<1>2. items' \in [Markets -> SUBSET Securities]
  BY DEF FetchRoster, RosterFails, FetchItems, RegistryTyped
<1>3. fetched' \in 0 .. LastMarket + 1
  BY <1>1, RegistryLimits DEF RegistryTyped
<1> QED
  BY <1>1, <1>2, <1>3 DEF RegistryTyped

LEMMA ComparisonTyped ==
  ASSUME RegistryTyped, NEW limit \in 0 .. MaxDelist, CompareRosters(limit)
  PROVE  RegistryTyped'
<1>1. /\ roster' \in {roster, {}} /\ fetched' \in {LastMarket + 1, 0}
      /\ UNCHANGED <<listing, table, cache, items, saver, published, announced>>
  BY DEF CompareRosters, EndDelisting
<1>2. missing' \subseteq Marks /\ IsFiniteSet(missing') /\ Cardinality(missing') <= MaxDelist
  <2>1. CASE UNCHANGED missing
    BY <2>1 DEF RegistryTyped
  <2>2. CASE missing' # missing
    <3> DEFINE mark == [s \in Securities |-> [symbol |-> s, row |-> table[s], stale |-> FALSE]]
    <3>1. /\ missing' = {mark[s] : s \in MissingFromRosters}
          /\ Cardinality(MissingFromRosters) \in 1 .. limit
      BY <2>2 DEF CompareRosters, MissingFromRosters
    <3>2. \A s \in MissingFromRosters : mark[s] \in Marks
      BY DEF MissingFromRosters, Known, RegistryTyped, Marks
    <3>3. MissingFromRosters \in SUBSET Securities /\ IsFiniteSet(MissingFromRosters)
      BY RegistryLimits, FS_Subset DEF MissingFromRosters
    <3> HIDE DEF mark
    <3>4. IsFiniteSet(missing') /\ Cardinality(missing') <= Cardinality(MissingFromRosters)
      BY <3>1, <3>3, Images
    <3>5. PICK a \in Nat, b \in Nat : a = Cardinality(MissingFromRosters) /\ b = Cardinality(missing')
      BY <3>3, <3>4, FS_CardinalityType
    <3>6. b <= MaxDelist
      <4>1. a <= limit /\ b <= a /\ limit \in Nat /\ limit <= MaxDelist
        BY <3>1, <3>4, <3>5, RegistryLimits
      <4> QED
        BY <4>1, RegistryLimits
    <3> QED
      BY <3>1, <3>2, <3>4, <3>5, <3>6
  <2> QED
    BY <2>1, <2>2
<1>3. fetched' \in 0 .. LastMarket + 1 /\ roster' \subseteq Securities
  BY <1>1, RegistryLimits DEF RegistryTyped
<1> QED
  BY <1>1, <1>2, <1>3 DEF RegistryTyped

LEMMA SavingTyped ==
  ASSUME RegistryTyped, NEW w \in Savers, WriteRow(w) \/ SaveFails(w) \/ WriteCache(w)
  PROVE  RegistryTyped'
<1>1. CASE WriteRow(w)
  <2>1. PICK x, s : RowWritten(w, x, s)
    BY <1>1, RowIsWritten
  <2>2. /\ x \in Saves /\ s \in Securities /\ table' = [table EXCEPT ![s] = x.row]
        /\ s = saver[w].symbol
    BY <2>1 DEF RowWritten
  <2>3. saver' \in [Savers -> Saves \cup {Free}]
    BY <2>1 DEF RowWritten
  <2>4. missing' \subseteq Marks /\ IsFiniteSet(missing') /\ Cardinality(missing') <= MaxDelist
    BY <1>1, <2>2, WriteMarksMissing
  <2>5. UNCHANGED <<listing, cache, items, roster, fetched, published, announced>>
    BY <1>1 DEF WriteRow
  <2>6. table' \in [Securities -> StockRows \cup {NoRow}]
    BY <2>2 DEF RegistryTyped, Saves
  <2> QED
    BY <2>3, <2>4, <2>5, <2>6 DEF RegistryTyped
<1>2. CASE SaveFails(w)
  <2>1. UNCHANGED <<cache, announced>>
    BY <1>2 DEF SaveFails
  <2> QED
    BY <1>2, <2>1, FailedTyped DEF RegistryTyped
<1>3. CASE WriteCache(w)
  <2>1. PICK x : x = saver[w]
    OBVIOUS
  <2>2. x \in Saves /\ x.symbol \in Securities /\ x.row \in StockRows /\ x.row.market \in Markets
    BY <1>3, <2>1, FailedTyped DEF Saves, StockRows
  <2>3. /\ cache' = [cache EXCEPT ![x.symbol] = x.row]
        /\ announced' = announced \/ announced' = [announced EXCEPT ![x.symbol] = x.row.market]
    BY <1>3, <2>1 DEF WriteCache
  <2>4. /\ cache' \in [Securities -> StockRows \cup {NoRow}]
        /\ announced' \in [Securities -> Markets \cup {0}]
    BY <2>2, <2>3 DEF RegistryTyped
  <2> QED
    BY <1>3, <2>4, FailedTyped DEF RegistryTyped
<1> QED
  BY <1>1, <1>2, <1>3

LEMMA RestartTyped ==
  ASSUME RegistryTyped, RestartRegistry
  PROVE  RegistryTyped'
<1>1. /\ cache' = table /\ items' = [m \in Markets |-> {}] /\ saver' = [w \in Savers |-> Free]
      /\ missing' = {} /\ roster' = {} /\ fetched' = 0
      /\ UNCHANGED <<listing, table, published, announced>>
  BY DEF RestartRegistry, EndDelisting
<1>2. fetched' \in 0 .. LastMarket + 1
  BY <1>1, RegistryLimits
<1>3. missing' \subseteq Marks /\ IsFiniteSet(missing') /\ Cardinality(missing') <= MaxDelist
  BY <1>1, FS_EmptySet, RegistryLimits
<1> QED
  BY <1>1, <1>2, <1>3 DEF RegistryTyped

LEMMA RegistryStaysTyped ==
  ASSUME RegistryTyped, SRNext
  PROVE  RegistryTyped'
<1>1. CASE \/ \E weights \in [Securities -> Weights] : ZeroWeights(weights)
           \/ \E s \in Securities : UpdateWeight(s)
  BY <1>1, WeightsTyped DEF RegistryTyped
<1>2. CASE \/ FetchRoster \/ RosterFails \/ RestartRegistry
           \/ \E limit \in 0 .. MaxDelist : CompareRosters(limit)
           \/ (\E m \in Markets : FetchItems(m))
  BY <1>2, DelistingTyped, ComparisonTyped, RestartTyped
<1>3. CASE \/ \E m \in Markets, s \in Securities : ProcessItem(m, s)
           \/ \E s \in Securities : ChangeHoldings(s) \/ DelistOfficially(s)
           \/ \E y \in missing : MarkMissing(y)
  BY <1>3, BeginningTyped
<1>4. CASE \/ \E s \in Securities, m \in Markets \cup {Gone} : Move(s, m)
           \/ \E w \in Savers : WriteRow(w) \/ SaveFails(w) \/ WriteCache(w)
  BY <1>4, ListingTyped, SavingTyped
<1> QED
  BY <1>1, <1>2, <1>3, <1>4 DEF SRNext

LEMMA RegistryStartsTyped ==
  ASSUME SRInit
  PROVE  RegistryTyped
<1>1. table \in [Securities -> StockRows \cup {NoRow}] /\ cache = table
  <2> DEFINE Loaded == {[market |-> m, suspended |-> FALSE, weight |-> x] :
                            m \in Markets, x \in Weights}
  <2>1. ASSUME NEW row \in Loaded PROVE row \in StockRows
    <3>1. PICK m \in Markets, x \in Weights :
              row = [market |-> m, suspended |-> FALSE, weight |-> x]
      OBVIOUS
    <3> QED
      BY <3>1 DEF StockRows
  <2>2. table \in [Securities -> {NoRow} \cup Loaded] /\ cache = table
    BY DEF SRInit
  <2> HIDE DEF Loaded
  <2> QED
    BY <2>1, <2>2
<1>2. announced \in [Securities -> Markets \cup {0}] /\ published \in [Securities -> Weights]
  <2>1. \A s \in Securities : table[s].market \in Markets \cup {0} /\ table[s].weight \in Weights
    BY <1>1, NoRowIsNone, RegistryLimits DEF StockRows
  <2> QED
    BY <2>1 DEF SRInit
<1>3. fetched \in 0 .. LastMarket + 1
  BY RegistryLimits DEF SRInit
<1>4. missing \subseteq Marks /\ IsFiniteSet(missing) /\ Cardinality(missing) <= MaxDelist
  BY FS_EmptySet, RegistryLimits DEF SRInit
<1> QED
  BY <1>1, <1>2, <1>3, <1>4 DEF SRInit, RegistryTyped

-----------------------------------------------------------------------------
(* Only what is gone is marked.  The rosters collected so far have every   *)
(* stock of the markets fetched that was not on the move; so a stock that  *)
(* is in none of them was gone or moved, and so was whatever is about to   *)
(* be saved with the mark, or has it in the table or the cache.            *)

\* A stock that was never listed has left no trace.
UnlistedFits ==
    \A s \in Securities : listing[s] = Gone /\ s \notin gone =>
        /\ table[s] = NoRow /\ cache[s] = NoRow /\ s \notin moving
        /\ \A m \in Markets : s \notin items[m]
        /\ \A w \in Savers : saver[w] # Free => saver[w].symbol # s

RostersFit ==
    fetched <= LastMarket =>
        \A s \in Securities :
            s \in roster \cup gone \cup moving \/ listing[s] > fetched \/ listing[s] = Gone

MarksFit ==
    /\ \A y \in missing : y.symbol \in gone \cup moving
    /\ \A w \in Savers : saver[w] # Free /\ saver[w].row.suspended => saver[w].symbol \in gone \cup moving
    /\ \A s \in Securities : table[s].suspended \/ cache[s].suspended => s \in gone \cup moving

DelistFits == RostersFit /\ MarksFit

LEMMA MoveDelists ==
  ASSUME RegistryTyped, DelistFits, NEW s \in Securities, NEW m \in Markets \cup {Gone}, Move(s, m)
  PROVE  DelistFits'
<1>1. /\ listing' = [listing EXCEPT ![s] = m]
      /\ gone' = IF m = Gone THEN gone \cup {s} ELSE gone
      /\ moving' = IF fetched \in Markets THEN moving \cup {s} ELSE moving
      /\ UNCHANGED <<table, cache, saver, roster, fetched, missing>>
  BY DEF Move
<1>2. listing \in [Securities -> Markets \cup {Gone}] /\ fetched \in 0 .. LastMarket + 1
  BY DEF RegistryTyped
<1>3. ASSUME fetched <= LastMarket, NEW v \in Securities
      PROVE  \/ v \in roster \cup gone' \cup moving'
             \/ listing'[v] > fetched \/ listing'[v] = Gone
  <2>1. CASE v # s
    BY <1>1, <1>2, <1>3, <2>1 DEF DelistFits, RostersFit
  <2>2. CASE v = s /\ fetched \in Markets
    BY <1>1, <2>2
  <2>3. CASE v = s /\ fetched \notin Markets
    <3>1. fetched = 0
      BY <1>2, <1>3, <2>3, RegistryLimits
    <3>2. m = Gone \/ m > 0
      BY RegistryLimits
    <3> QED
      BY <1>1, <1>2, <2>3, <3>1, <3>2
  <2> QED
    BY <2>1, <2>2, <2>3
<1>4. RostersFit'
  BY <1>1, <1>3 DEF RostersFit
<1>5. MarksFit'
  BY <1>1 DEF DelistFits, MarksFit
<1> QED
  BY <1>4, <1>5 DEF DelistFits

LEMMA RosterDelists ==
  ASSUME RegistryTyped, DelistFits, FetchRoster
  PROVE  DelistFits'
<1>1. /\ fetched < LastMarket /\ fetched' = fetched + 1
      /\ roster' = roster \cup {s \in Securities : listing[s] = fetched + 1}
      /\ UNCHANGED <<listing, table, cache, saver, missing, gone, moving>>
  BY DEF FetchRoster
<1>2. /\ listing \in [Securities -> Markets \cup {Gone}] /\ fetched \in Nat
      /\ \A s \in Securities : listing[s] \in Nat
  BY RegistryLimits DEF RegistryTyped, Gone
<1>3. ASSUME NEW s \in Securities
      PROVE  s \in roster' \cup gone \cup moving \/ listing[s] > fetched' \/ listing[s] = Gone
  <2>1. s \in roster \cup gone \cup moving \/ listing[s] > fetched \/ listing[s] = Gone
    BY <1>1, <1>2, RegistryLimits DEF DelistFits, RostersFit
  <2>2. listing[s] > fetched => listing[s] = fetched + 1 \/ listing[s] > fetched + 1
    BY <1>2
  <2> QED
    BY <1>1, <2>1, <2>2
<1>4. MarksFit'
  BY <1>1 DEF DelistFits, MarksFit
<1>5. RostersFit'
  BY <1>1, <1>3 DEF RostersFit
<1> QED
  BY <1>4, <1>5 DEF DelistFits

\* What the rosters do not list was gone or moved.
LEMMA ComparisonDelists ==
  ASSUME RegistryTyped, UnlistedFits, DelistFits, NEW limit, CompareRosters(limit)
  PROVE  DelistFits'
<1>1. /\ fetched = LastMarket
      /\ \/ roster' = {} /\ fetched' = 0 /\ missing' = missing
         \/ /\ fetched' = LastMarket + 1
            /\ missing' = {[symbol |-> s, row |-> table[s], stale |-> FALSE] : s \in MissingFromRosters}
      /\ UNCHANGED <<listing, table, cache, saver, gone, moving>>
  BY DEF CompareRosters, EndDelisting
<1>2. \A s \in Securities : listing[s] \in Markets \cup {Gone}
  BY DEF RegistryTyped
<1>3. \A s \in MissingFromRosters : s \in gone \cup moving
  <2>1. \A s \in Securities :
            s \in roster \cup gone \cup moving \/ listing[s] > LastMarket \/ listing[s] = Gone
    BY <1>1, RegistryLimits DEF DelistFits, RostersFit
  <2>2. \A s \in Securities : ~(listing[s] > LastMarket)
    BY <1>2, RegistryLimits DEF Gone
  <2> QED
    BY <2>1, <2>2 DEF MissingFromRosters, UnlistedFits, Known
<1>4. \A y \in missing' : y.symbol \in gone \cup moving
  BY <1>1, <1>3 DEF DelistFits, MarksFit
<1>5. MarksFit'
  BY <1>1, <1>4 DEF DelistFits, MarksFit
<1>6. RostersFit'
  <2>1. CASE fetched' = 0
    <3>1. \A s \in Securities : listing[s] = Gone \/ listing[s] > 0
      BY <1>2, RegistryLimits
    <3> QED
      BY <1>1, <2>1, <3>1 DEF RostersFit
  <2>2. CASE fetched' = LastMarket + 1
    BY <2>2, RegistryLimits DEF RostersFit
  <2> QED
    BY <1>1, <2>1, <2>2
<1> QED
  BY <1>5, <1>6 DEF DelistFits

\* The rosters stay, or the run ends.
LEMMA RostersStay ==
  ASSUME RegistryTyped, DelistFits, UNCHANGED <<listing, gone, moving>>,
         UNCHANGED <<roster, fetched>> \/ EndDelisting
  PROVE  RostersFit'
<1>1. CASE UNCHANGED <<roster, fetched>>
  BY <1>1 DEF DelistFits, RostersFit
<1>2. CASE EndDelisting
  <2>1. \A s \in Securities : listing[s] = Gone \/ listing[s] > 0
    BY RegistryLimits DEF RegistryTyped
  <2> QED
    BY <1>2, <2>1 DEF RostersFit, EndDelisting
<1> QED
  BY <1>1, <1>2

LEMMA BeganDelists ==
  ASSUME RegistryTyped, DelistFits, NEW w \in Savers, NEW x, Began(w, x),
         x.row.suspended => x.symbol \in gone \cup moving,
         missing' \subseteq missing, UNCHANGED <<listing, table, cache, gone, moving>>,
         UNCHANGED <<roster, fetched>> \/ EndDelisting
  PROVE  DelistFits'
<1>1. MarksFit'
  BY DEF DelistFits, MarksFit, Began, RegistryTyped
<1> QED
  BY <1>1, RostersStay DEF DelistFits

LEMMA FoundFits ==
  ASSUME DelistFits, NEW s \in Securities
  PROVE  FindBySymbol(s).suspended => s \in gone \cup moving
BY DEF DelistFits, MarksFit, FindBySymbol

LEMMA BeginningDelists ==
  ASSUME RegistryTyped, DelistFits,
         \/ \E m \in Markets, s \in Securities : ProcessItem(m, s)
         \/ \E s \in Securities : ChangeHoldings(s) \/ DelistOfficially(s)
         \/ \E y \in missing : MarkMissing(y)
  PROVE  DelistFits'
<1>1. /\ missing' \subseteq missing /\ UNCHANGED <<listing, table, cache, gone, moving>>
      /\ UNCHANGED <<roster, fetched>> \/ EndDelisting
  BY DEF ProcessItem, ChangeHoldings, DelistOfficially, MarkMissing
<1>2. ASSUME NEW m \in Markets, NEW s \in Securities, ProcessItem(m, s) PROVE DelistFits'
  <2>1. CASE UNCHANGED saver
    <3>1. MarksFit'
      BY <1>1, <2>1 DEF DelistFits, MarksFit
    <3> QED
      BY <1>1, <3>1, RostersStay DEF DelistFits
  <2>2. CASE saver' # saver
    <3>1. PICK x \in Saves : /\ Began(m, x) /\ x.symbol = s
                             /\ x.row.suspended = FindBySymbol(s).suspended
      BY <1>2, <2>2, ProcessItemBegins
    <3> QED
      BY <1>1, <3>1, FoundFits, BeganDelists, RegistryLimits
  <2> QED
    BY <2>1, <2>2
<1>3. ASSUME NEW s \in Securities, ChangeHoldings(s) PROVE DelistFits'
  <2>1. PICK x \in Saves : Began(Holdings, x) /\ x.symbol = s /\ x.row = FindBySymbol(s)
    BY <1>3, ChangeHoldingsBegins
  <2> QED
    BY <1>1, <2>1, FoundFits, BeganDelists, RegistryLimits
<1>4. ASSUME NEW s \in Securities, DelistOfficially(s) PROVE DelistFits'
  <2>1. PICK x \in Saves : Began(Delist, x) /\ x.symbol = s
    BY <1>4, DelistOfficiallyBegins
  <2>2. s \in gone
    BY <1>4 DEF DelistOfficially
  <2> QED
    BY <1>1, <2>1, <2>2, BeganDelists, RegistryLimits
<1>5. ASSUME NEW y \in missing, MarkMissing(y) PROVE DelistFits'
  <2>1. PICK x \in Saves : Began(Delist, x) /\ x.symbol = y.symbol
    BY <1>5, MarkMissingBegins
  <2>2. y.symbol \in gone \cup moving
    BY DEF DelistFits, MarksFit
  <2> QED
    BY <1>1, <2>1, <2>2, BeganDelists, RegistryLimits
<1> QED
  BY <1>2, <1>3, <1>4, <1>5

LEMMA SavingDelists ==
  ASSUME RegistryTyped, DelistFits, NEW w \in Savers,
         WriteRow(w) \/ SaveFails(w) \/ WriteCache(w)
  PROVE  DelistFits'
<1>0. UNCHANGED <<listing, gone, moving, roster, fetched>>
  BY DEF WriteRow, SaveFails, WriteCache
<1>1. RostersFit'
  BY <1>0, RostersStay
<1>2. CASE WriteRow(w)
  <2>1. PICK x, s : RowWritten(w, x, s)
    BY <1>2, RowIsWritten
  <2>2. /\ x = saver[w] /\ s = x.symbol /\ x \in Saves /\ s \in Securities
        /\ table' = [table EXCEPT ![s] = x.row] /\ saver[w] # Free
    BY <1>2, <2>1 DEF RowWritten, WriteRow
  <2>3. x.row.suspended => s \in gone \cup moving
    BY <2>2 DEF DelistFits, MarksFit
  <2>4. UNCHANGED <<cache, gone, moving>>
    BY <1>2 DEF WriteRow
  <2>5. \A y \in missing' : y.symbol \in gone' \cup moving'
    <3>1. MissingMarked(s)
      BY <1>2, <2>2, WriteMarksMissing
    <3> QED
      BY <2>4, <3>1 DEF DelistFits, MarksFit, MissingMarked
  <2>6. \A v \in Securities : table'[v].suspended \/ cache'[v].suspended => v \in gone' \cup moving'
    BY <2>2, <2>3, <2>4 DEF DelistFits, MarksFit, RegistryTyped
  <2>7. ASSUME NEW v \in Savers, saver'[v] # Free, saver'[v].row.suspended
        PROVE  saver'[v].symbol \in gone' \cup moving'
    <3>1. CASE v = w
      BY <2>1, <2>2, <2>3, <2>4, <2>7, <3>1 DEF RowWritten
    <3>2. CASE v # w
      <4>1. /\ saver'[v].symbol = saver[v].symbol /\ saver'[v].row = saver[v].row
            /\ saver[v] # Free
        BY <2>1, <2>7, <3>2 DEF RowWritten, Marked
      <4> QED
        BY <2>4, <2>7, <4>1 DEF DelistFits, MarksFit
    <3> QED
      BY <3>1, <3>2
  <2> QED
    BY <1>1, <2>5, <2>6, <2>7 DEF DelistFits, MarksFit
<1>3. CASE SaveFails(w)
  <2>1. UNCHANGED cache
    BY <1>3 DEF SaveFails
  <2>2. MarksFit'
    BY <1>3, <2>1, FailedTyped DEF RegistryTyped, DelistFits, MarksFit
  <2> QED
    BY <1>1, <2>2 DEF DelistFits
<1>4. CASE WriteCache(w)
  <2>1. PICK x : x = saver[w]
    OBVIOUS
  <2>2. x \in Saves /\ x # Free /\ x.symbol \in Securities
    BY <1>4, <2>1, FailedTyped DEF WriteCache, Saves
  <2>3. cache' = [cache EXCEPT ![x.symbol] = x.row]
    BY <1>4, <2>1 DEF WriteCache
  <2>4. x.row.suspended => x.symbol \in gone \cup moving
    BY <2>1, <2>2 DEF DelistFits, MarksFit
  <2>5. MarksFit'
    BY <1>4, <2>2, <2>3, <2>4, FailedTyped DEF RegistryTyped, DelistFits, MarksFit
  <2> QED
    BY <1>1, <2>5 DEF DelistFits
<1> QED
  BY <1>2, <1>3, <1>4

LEMMA RegistryDelists ==
  ASSUME RegistryTyped, UnlistedFits, DelistFits, SRNext
  PROVE  DelistFits'
<1>1. CASE \/ \E weights \in [Securities -> Weights] : ZeroWeights(weights)
           \/ \E s \in Securities : UpdateWeight(s)
  <2>1. /\ \A s \in Securities : table'[s].suspended = table[s].suspended
        /\ UNCHANGED <<listing, cache, saver, roster, fetched, missing, gone, moving>>
    BY <1>1, WeightsTyped
  <2>2. MarksFit'
    BY <2>1 DEF DelistFits, MarksFit
  <2> QED
    BY <2>1, <2>2, RostersStay DEF DelistFits
<1>2. CASE RosterFails \/ RestartRegistry \/ (\E m \in Markets : FetchItems(m))
  <2>1. /\ UNCHANGED <<listing, table, gone, moving>>
        /\ UNCHANGED <<roster, fetched>> \/ EndDelisting
        /\ \/ UNCHANGED <<cache, saver, missing>>
           \/ cache' = table /\ missing' = {} /\ saver' = [v \in Savers |-> Free]
    BY <1>2 DEF RosterFails, RestartRegistry, FetchItems
  <2>2. MarksFit'
    BY <2>1 DEF DelistFits, MarksFit
  <2> QED
    BY <2>1, <2>2, RostersStay DEF DelistFits
<1>3. CASE \/ \E m \in Markets, s \in Securities : ProcessItem(m, s)
           \/ \E s \in Securities : ChangeHoldings(s) \/ DelistOfficially(s)
           \/ \E y \in missing : MarkMissing(y)
  BY <1>3, BeginningDelists
<1>4. CASE \/ \E s \in Securities, m \in Markets \cup {Gone} : Move(s, m)
           \/ \E w \in Savers : WriteRow(w) \/ SaveFails(w) \/ WriteCache(w)
           \/ FetchRoster \/ \E limit \in 0 .. MaxDelist : CompareRosters(limit)
  BY <1>4, MoveDelists, SavingDelists, RosterDelists, ComparisonDelists
<1> QED
  BY <1>1, <1>2, <1>3, <1>4 DEF SRNext

LEMMA RegistryStartsUnmarked ==
  ASSUME SRInit
  PROVE  DelistFits
<1>1. /\ \A s \in Securities : listing[s] = Gone \/ listing[s] > 0
      /\ fetched = 0 /\ missing = {} /\ cache = table
      /\ saver = [w \in Savers |-> Free]
  BY RegistryLimits DEF SRInit
<1>2. \A s \in Securities : ~table[s].suspended
  <2> DEFINE Loaded == {[market |-> m, suspended |-> FALSE, weight |-> x] :
                            m \in Markets, x \in Weights}
  <2>1. \A row \in Loaded : row.suspended = FALSE
    OBVIOUS
  <2>2. table \in [Securities -> {NoRow} \cup Loaded] /\ NoRow.suspended = FALSE
    BY NoRowIsNone DEF SRInit
  <2> HIDE DEF Loaded
  <2> QED
    BY <2>1, <2>2
<1> QED
  BY <1>1, <1>2, RegistryLimits DEF DelistFits, RostersFit, MarksFit

LEMMA UnlistedStarts ==
  ASSUME SRInit
  PROVE  UnlistedFits
<1> SUFFICES ASSUME NEW s \in Securities, listing[s] = Gone PROVE table[s] = NoRow
  BY DEF SRInit, UnlistedFits
<1>1. Known(s) => table[s].market = Gone
  BY DEF SRInit
<1>2. table[s] \in StockRows \cup {NoRow}
  BY RegistryStartsTyped DEF RegistryTyped
<1> QED
  BY <1>1, <1>2, NoRowIsNone DEF Known, Gone

\* Only a stock of which there is something is saved.
LEMMA UnlistedBegins ==
  ASSUME RegistryTyped, UnlistedFits, DelistFits,
         \/ \E m \in Markets, s \in Securities : ProcessItem(m, s)
         \/ \E s \in Securities : ChangeHoldings(s) \/ DelistOfficially(s)
         \/ \E y \in missing : MarkMissing(y)
  PROVE  UnlistedFits'
<1>1. /\ UNCHANGED <<listing, table, cache, gone, moving>>
      /\ \A m \in Markets : items'[m] \subseteq items[m]
  BY DEF ProcessItem, ChangeHoldings, DelistOfficially, MarkMissing, RegistryTyped
<1>2. ASSUME NEW w \in Savers, NEW x, Began(w, x),
             ~(listing[x.symbol] = Gone /\ x.symbol \notin gone)
      PROVE  UnlistedFits'
  BY <1>1, <1>2 DEF UnlistedFits, Began, RegistryTyped
<1>3. ASSUME NEW m \in Markets, NEW s \in Securities, ProcessItem(m, s) PROVE UnlistedFits'
  <2>1. ~(listing[s] = Gone /\ s \notin gone)
    BY <1>3 DEF ProcessItem, UnlistedFits
  <2>2. CASE UNCHANGED saver
    BY <1>1, <2>2 DEF UnlistedFits
  <2>3. CASE saver' # saver
    <3>1. PICK x \in Saves : Began(m, x) /\ x.symbol = s
      BY <1>3, <2>3, ProcessItemBegins
    <3> QED
      BY <1>2, <2>1, <3>1, RegistryLimits
  <2> QED
    BY <2>2, <2>3
<1>4. ASSUME NEW s \in Securities, ChangeHoldings(s) PROVE UnlistedFits'
  <2>1. ~(listing[s] = Gone /\ s \notin gone)
    BY <1>4 DEF ChangeHoldings, FindBySymbol, UnlistedFits
  <2>2. PICK x \in Saves : Began(Holdings, x) /\ x.symbol = s
    BY <1>4, ChangeHoldingsBegins
  <2> QED
    BY <1>2, <2>1, <2>2, RegistryLimits
<1>5. ASSUME NEW s \in Securities, DelistOfficially(s) PROVE UnlistedFits'
  <2>1. s \in gone
    BY <1>5 DEF DelistOfficially
  <2>2. PICK x \in Saves : Began(Delist, x) /\ x.symbol = s
    BY <1>5, DelistOfficiallyBegins
  <2> QED
    BY <1>2, <2>1, <2>2, RegistryLimits
<1>6. ASSUME NEW y \in missing, MarkMissing(y) PROVE UnlistedFits'
  <2>1. PICK x \in Saves : Began(Delist, x) /\ x.symbol = y.symbol
    BY <1>6, MarkMissingBegins
  <2>2. ~(listing[x.symbol] = Gone /\ x.symbol \notin gone)
    <3>1. y.symbol \in gone \cup moving
      BY DEF DelistFits, MarksFit
    <3> QED
      BY <2>1, <3>1 DEF UnlistedFits, RegistryTyped, Marks
  <2> QED
    BY <1>2, <2>1, <2>2, RegistryLimits
<1> QED
  BY <1>3, <1>4, <1>5, <1>6

LEMMA UnlistedSaves ==
  ASSUME RegistryTyped, UnlistedFits, NEW w \in Savers,
         WriteRow(w) \/ SaveFails(w) \/ WriteCache(w)
  PROVE  UnlistedFits'
<1>1. UNCHANGED <<listing, gone, moving, items>>
  BY DEF WriteRow, SaveFails, WriteCache
<1>2. CASE WriteRow(w)
  <2>1. PICK x, s : RowWritten(w, x, s)
    BY <1>2, RowIsWritten
  <2>2. /\ s \in Securities /\ saver[w] # Free /\ saver[w].symbol = s
        /\ table' = [table EXCEPT ![s] = x.row] /\ UNCHANGED cache
    BY <1>2, <2>1 DEF RowWritten, WriteRow
  <2>3. ~(listing[s] = Gone /\ s \notin gone)
    BY <2>2 DEF UnlistedFits
  <2>4. ASSUME NEW v \in Savers, saver'[v] # Free
        PROVE  saver[v] # Free /\ saver'[v].symbol = saver[v].symbol
    <3>1. CASE v = w
      BY <2>1, <2>2, <3>1 DEF RowWritten
    <3>2. CASE v # w
      BY <2>1, <2>4, <3>2 DEF RowWritten, Marked
    <3> QED
      BY <3>1, <3>2
  <2> QED
    BY <1>1, <2>2, <2>3, <2>4 DEF UnlistedFits
<1>3. CASE SaveFails(w)
  <2>1. UNCHANGED <<table, cache>> /\ saver' = [saver EXCEPT ![w] = Free]
    BY <1>3 DEF SaveFails
  <2>2. saver \in [Savers -> Saves \cup {Free}]
    BY DEF RegistryTyped
  <2> QED
    BY <1>1, <2>1, <2>2 DEF UnlistedFits
<1>4. CASE WriteCache(w)
  <2>1. PICK s \in Securities : s = saver[w].symbol
    BY <1>4, FailedTyped DEF WriteCache, Saves
  <2>2. ~(listing[s] = Gone /\ s \notin gone)
    BY <1>4, <2>1 DEF UnlistedFits, WriteCache
  <2>3. /\ UNCHANGED table /\ saver' = [saver EXCEPT ![w] = Free]
        /\ cache' = [cache EXCEPT ![s] = saver[w].row]
    BY <1>4, <2>1 DEF WriteCache
  <2>4. saver \in [Savers -> Saves \cup {Free}]
    BY DEF RegistryTyped
  <2> QED
    BY <1>1, <2>2, <2>3, <2>4 DEF UnlistedFits
<1> QED
  BY <1>2, <1>3, <1>4

LEMMA UnlistedMoves ==
  ASSUME RegistryTyped, UnlistedFits, NEW s \in Securities, NEW m \in Markets \cup {Gone}, Move(s, m)
  PROVE  UnlistedFits'
<1>1. /\ listing' = [listing EXCEPT ![s] = m]
      /\ gone' = IF m = Gone THEN gone \cup {s} ELSE gone
      /\ moving' \in {moving, moving \cup {s}}
      /\ UNCHANGED <<table, cache, items, saver>>
  BY DEF Move
<1>2. listing \in [Securities -> Markets \cup {Gone}]
  BY DEF RegistryTyped
<1>3. ASSUME NEW v \in Securities, listing'[v] = Gone, v \notin gone'
      PROVE  v # s /\ listing[v] = Gone /\ v \notin gone
  BY <1>1, <1>2, <1>3
<1> QED
  BY <1>1, <1>3 DEF UnlistedFits

LEMMA UnlistedStays ==
  ASSUME RegistryTyped, UnlistedFits, DelistFits, SRNext
  PROVE  UnlistedFits'
<1>1. CASE \/ \E weights \in [Securities -> Weights] : ZeroWeights(weights)
           \/ \E s \in Securities : UpdateWeight(s)
  <2>1. /\ UNCHANGED <<listing, cache, items, saver, gone, moving>>
        /\ \A s \in Securities :
            table'[s] \in StockRows \cup {NoRow} /\ table'[s].market = table[s].market
    BY <1>1, WeightsTyped
  <2>2. \A s \in Securities : table[s] = NoRow => table'[s] = NoRow
    BY <2>1, NoRowIsNone
  <2> QED
    BY <2>1, <2>2 DEF UnlistedFits
<1>2. CASE \/ FetchRoster \/ RosterFails \/ RestartRegistry
           \/ \E limit \in 0 .. MaxDelist : CompareRosters(limit)
  <2>1. /\ UNCHANGED <<listing, table, gone, moving>>
        /\ \/ UNCHANGED <<cache, items, saver>>
           \/ /\ cache' = table /\ items' = [m \in Markets |-> {}]
              /\ saver' = [v \in Savers |-> Free]
    BY <1>2 DEF FetchRoster, RosterFails, RestartRegistry, CompareRosters
  <2> QED
    BY <2>1 DEF UnlistedFits
<1>3. ASSUME NEW m \in Markets, FetchItems(m) PROVE UnlistedFits'
  <2>1. /\ UNCHANGED <<listing, table, cache, saver, gone, moving>>
        /\ items' = [items EXCEPT ![m] = {s \in Securities : listing[s] = m}]
    BY <1>3 DEF FetchItems
  <2>2. Gone # m /\ items \in [Markets -> SUBSET Securities]
    BY RegistryLimits DEF Gone, RegistryTyped
  <2> QED
    BY <2>1, <2>2 DEF UnlistedFits
<1>4. CASE \/ \E m \in Markets, s \in Securities : ProcessItem(m, s)
           \/ \E s \in Securities : ChangeHoldings(s) \/ DelistOfficially(s)
           \/ \E y \in missing : MarkMissing(y)
  BY <1>4, UnlistedBegins
<1>5. CASE \/ \E s \in Securities, m \in Markets \cup {Gone} : Move(s, m)
           \/ \E w \in Savers : WriteRow(w) \/ SaveFails(w) \/ WriteCache(w)
  BY <1>5, UnlistedMoves, UnlistedSaves
<1> QED
  BY <1>1, <1>2, <1>3, <1>4, <1>5 DEF SRNext

-----------------------------------------------------------------------------
(* What is saved reaches everyone.  A copy that is not outdated has the    *)
(* market of the row, or tells of another, and never lacks its mark.  A    *)
(* stock of which no outdated copy was saved has at most one save between  *)
(* the table and the cache, which will bring the cache and the subscribers *)
(* up to date.                                                             *)

Same(x, y) == x.market = y.market /\ x.suspended = y.suspended

CopyFits(x) ==
    x.stale = FALSE /\ x.symbol \notin torn =>
        /\ table[x.symbol].suspended => x.row.suspended
        /\ x.tells = FALSE => x.row.market = table[x.symbol].market

CopiesFit == \A w \in Savers : saver[w] # Free /\ saver[w].written = FALSE => CopyFits(saver[w])

MissingFits ==
    \A y \in missing : y.stale = FALSE /\ y.symbol \notin torn => y.row.market = table[y.symbol].market

WrittenOn(w, s) == saver[w] # Free /\ saver[w].symbol = s /\ saver[w].written

CacheFits(s) ==
    s \notin torn =>
        /\ \A w \in Savers : WrittenOn(w, s) =>
              /\ Same(saver[w].row, table[s])
              /\ \A v \in Savers : WrittenOn(v, s) => v = w
        /\ (\A w \in Savers : ~WrittenOn(w, s)) => Same(cache[s], table[s])
        /\ s \notin unheard /\ (\A w \in Savers : WrittenOn(w, s) => saver[w].tells = FALSE)
              => announced[s] = table[s].market

CachesFit == \A s \in Securities : CacheFits(s)

TornFits == CopiesFit /\ MissingFits /\ CachesFit

\* A copy taken while no save of the stock is on its way to the cache is as the table is.
LEMMA FoundIsCurrent ==
  ASSUME TornFits, NEW s \in Securities, s \notin torn, ~Written(s)
  PROVE  Same(FindBySymbol(s), table[s])
<1>1. \A w \in Savers : ~WrittenOn(w, s)
  BY DEF Written, WrittenOn
<1>2. Same(cache[s], table[s])
  BY <1>1 DEF TornFits, CachesFit, CacheFits
<1> QED
  BY <1>2 DEF FindBySymbol, Same

LEMMA BeganTears ==
  ASSUME RegistryTyped, TornFits, NEW w \in Savers, NEW x, Began(w, x), CopyFits(x),
         missing' \subseteq missing, UNCHANGED <<table, cache, announced, torn, unheard>>
  PROVE  TornFits'
<1>1. /\ saver[w] = Free /\ saver'[w] = x /\ x.written = FALSE
      /\ \A v \in Savers \ {w} : saver'[v] = saver[v]
  BY DEF Began, RegistryTyped
<1>2. CopiesFit'
  <2>1. ASSUME NEW v \in Savers, saver'[v] # Free, saver'[v].written = FALSE
        PROVE  CopyFits(saver'[v])
    <3>1. CASE v = w
      BY <1>1, <3>1
    <3>2. CASE v # w
      BY <1>1, <2>1, <3>2 DEF TornFits, CopiesFit
    <3> QED
      BY <3>1, <3>2
  <2> QED
    BY <2>1 DEF CopiesFit, CopyFits
<1>3. MissingFits'
  BY DEF TornFits, MissingFits
<1>4. ASSUME NEW s \in Securities PROVE CacheFits(s)'
  <2>1. \A v \in Savers : (WrittenOn(v, s)' <=> WrittenOn(v, s))
                          /\ (WrittenOn(v, s) => saver'[v] = saver[v])
    BY <1>1 DEF WrittenOn
  <2> QED
    BY <2>1 DEF TornFits, CachesFit, CacheFits
<1> QED
  BY <1>2, <1>3, <1>4 DEF TornFits, CachesFit

LEMMA WriteRowTears ==
  ASSUME RegistryTyped, TornFits, NEW w \in Savers, WriteRow(w)
  PROVE  TornFits' /\ DelistedStay
<1>1. PICK x, s : RowWritten(w, x, s)
  BY RowIsWritten
<1>2. /\ x = saver[w] /\ s = x.symbol /\ x \in Saves /\ s \in Securities /\ x.written = FALSE
      /\ saver[w] # Free /\ table' = [table EXCEPT ![s] = x.row]
  BY <1>1 DEF RowWritten, WriteRow
<1>3. /\ torn \subseteq torn' /\ torn' \subseteq torn \cup {s}
      /\ s \notin torn' =>
            /\ saver[w].stale = FALSE
            /\ \A v \in Savers \ {w} : ~(saver[v] # Free /\ saver[v].symbol = s /\ saver[v].written)
  BY <1>2, WriteTears
<1>4. MissingMarked(s)
  BY <1>2, WriteMarksMissing
<1>5. UNCHANGED <<cache, announced, unheard>>
  BY DEF WriteRow
<1>6. table'[s] = x.row /\ \A t \in Securities \ {s} : table'[t] = table[t]
  BY <1>2 DEF RegistryTyped
<1>7. ASSUME NEW v \in Savers \ {w}, saver'[v] # Free
      PROVE  /\ saver[v] # Free /\ saver'[v].symbol = saver[v].symbol
             /\ saver'[v].row = saver[v].row /\ saver'[v].tells = saver[v].tells
             /\ saver'[v].written = saver[v].written
             /\ saver'[v].symbol = s => saver'[v].stale = TRUE
             /\ saver'[v].symbol # s => saver'[v] = saver[v]
  BY <1>1, <1>7 DEF RowWritten, Marked
<1>8. s \notin torn' =>
        /\ table[s].suspended => x.row.suspended
        /\ x.tells = FALSE => x.row.market = table[s].market
  BY <1>2, <1>3 DEF TornFits, CopiesFit, CopyFits
<1>9. CopiesFit'
  <2>1. ASSUME NEW v \in Savers, saver'[v] # Free, saver'[v].written = FALSE
        PROVE  CopyFits(saver[v])'
    <3>1. v # w
      BY <1>1, <2>1 DEF RowWritten
    <3>2. CASE saver'[v].symbol = s
      BY <1>7, <2>1, <3>1, <3>2 DEF CopyFits
    <3>3. CASE saver'[v].symbol # s
      <4>1. saver'[v] = saver[v] /\ saver[v] # Free
        BY <1>7, <2>1, <3>1, <3>3
      <4>2. CopyFits(saver[v])
        BY <2>1, <4>1 DEF TornFits, CopiesFit
      <4>3. saver[v].symbol \in Securities \ {s}
        BY <3>3, <4>1 DEF RegistryTyped, Saves
      <4>4. table'[saver[v].symbol] = table[saver[v].symbol]
        BY <1>6, <4>3
      <4>5. saver[v].symbol \notin torn' => saver[v].symbol \notin torn
        BY <1>3
      <4> QED
        BY <4>1, <4>2, <4>4, <4>5 DEF CopyFits
    <3> QED
      BY <3>2, <3>3
  <2> QED
    BY <2>1 DEF CopiesFit
<1>10. MissingFits'
  <2>1. ASSUME NEW y \in missing', y.stale = FALSE, y.symbol \notin torn'
        PROVE  y.row.market = table'[y.symbol].market
    <3>1. PICK z \in missing : /\ y.symbol = z.symbol /\ y.row = z.row
                               /\ y.symbol = s => y.stale = TRUE
                               /\ y.stale = FALSE => z.stale = FALSE
      BY <1>4 DEF MissingMarked
    <3>2. y.symbol # s /\ z.stale = FALSE /\ z.symbol \notin torn
      BY <1>3, <2>1, <3>1
    <3>3. z.symbol \in Securities
      BY DEF RegistryTyped, Marks
    <3>4. table'[y.symbol] = table[z.symbol]
      BY <1>6, <3>1, <3>2, <3>3
    <3> QED
      BY <3>1, <3>2, <3>4 DEF TornFits, MissingFits
  <2> QED
    BY <2>1 DEF MissingFits
<1>11. ASSUME NEW t \in Securities, t # s PROVE CacheFits(t)'
  <2>1. \A v \in Savers : /\ WrittenOn(v, t)' <=> WrittenOn(v, t)
                          /\ WrittenOn(v, t) => saver'[v] = saver[v]
    BY <1>1, <1>2, <1>7, <1>11 DEF WrittenOn, RowWritten
  <2>2. table'[t] = table[t] /\ (t \notin torn' => t \notin torn) /\ CacheFits(t)
    BY <1>3, <1>6, <1>11 DEF TornFits, CachesFit
  <2> QED
    BY <1>5, <2>1, <2>2 DEF CacheFits
<1>12. CacheFits(s)'
  <2>1. SUFFICES ASSUME s \notin torn' PROVE CacheFits(s)'
    BY DEF CacheFits
  <2>2. /\ WrittenOn(w, s)' /\ saver'[w].row = x.row /\ saver'[w].tells = x.tells
    BY <1>1 DEF WrittenOn, RowWritten, Saves, Free
  <2>3. \A v \in Savers : WrittenOn(v, s)' => v = w
    BY <1>3, <1>7, <2>1 DEF WrittenOn
  <2>4. \A v \in Savers : ~WrittenOn(v, s)
    BY <1>2, <1>3, <2>1 DEF WrittenOn
  <2>5. s \notin unheard => announced[s] = table[s].market
    BY <1>2, <1>3, <2>1, <2>4 DEF TornFits, CachesFit, CacheFits
  <2>6. s \notin unheard /\ x.tells = FALSE => announced[s] = table'[s].market
    BY <1>6, <1>8, <2>1, <2>5
  <2> QED
    BY <1>5, <1>6, <2>2, <2>3, <2>6 DEF CacheFits, Same
<1>13. DelistedStay
  BY <1>6, <1>8 DEF DelistedStay
<1>14. CachesFit'
  BY <1>11, <1>12 DEF CachesFit
<1> QED
  BY <1>9, <1>10, <1>13, <1>14 DEF TornFits

LEMMA SaveEndsTears ==
  ASSUME RegistryTyped, TornFits, NEW w \in Savers, SaveFails(w) \/ WriteCache(w)
  PROVE  TornFits'
<1>1. PICK x : x = saver[w]
  OBVIOUS
<1>2. /\ x \in Saves /\ x # Free /\ x.symbol \in Securities
      /\ saver' = [saver EXCEPT ![w] = Free] /\ UNCHANGED <<table, missing, torn>>
  BY <1>1, FailedTyped, SavesAreNotFree DEF Saves
<1>3. saver'[w] = Free /\ \A v \in Savers \ {w} : saver'[v] = saver[v]
  BY <1>2 DEF RegistryTyped
<1>4. CopiesFit' /\ MissingFits'
  BY <1>2, <1>3 DEF TornFits, CopiesFit, MissingFits, CopyFits
<1>5. CASE SaveFails(w)
  <2>1. UNCHANGED <<cache, announced, unheard>> /\ ~x.written
    BY <1>1, <1>5 DEF SaveFails
  <2>2. ASSUME NEW s \in Securities PROVE CacheFits(s)'
    <3>1. \A v \in Savers : /\ WrittenOn(v, s)' <=> WrittenOn(v, s)
                            /\ WrittenOn(v, s) => saver'[v] = saver[v]
      BY <1>1, <1>3, <2>1 DEF WrittenOn
    <3> QED
      BY <1>2, <2>1, <3>1 DEF TornFits, CachesFit, CacheFits
  <2> QED
    BY <1>4, <2>2 DEF TornFits, CachesFit
<1>6. CASE WriteCache(w)
  <2>1. /\ x.written /\ cache' = [cache EXCEPT ![x.symbol] = x.row]
        /\ announced' = IF x.tells THEN [announced EXCEPT ![x.symbol] = x.row.market] ELSE announced
        /\ unheard' = IF x.tells THEN unheard \ {x.symbol} ELSE unheard
    BY <1>1, <1>6 DEF WriteCache
  <2>2. /\ cache'[x.symbol] = x.row
        /\ \A s \in Securities \ {x.symbol} : cache'[s] = cache[s] /\ announced'[s] = announced[s]
        /\ announced'[x.symbol] = IF x.tells THEN x.row.market ELSE announced[x.symbol]
    BY <1>2, <2>1 DEF RegistryTyped
  <2>3. ASSUME NEW s \in Securities, s # x.symbol PROVE CacheFits(s)'
    <3>1. \A v \in Savers : /\ WrittenOn(v, s)' <=> WrittenOn(v, s)
                            /\ WrittenOn(v, s) => saver'[v] = saver[v]
      BY <1>1, <1>3, <2>3 DEF WrittenOn
    <3>2. s \in unheard' <=> s \in unheard
      BY <2>1, <2>3
    <3> QED
      BY <1>2, <2>2, <2>3, <3>1, <3>2 DEF TornFits, CachesFit, CacheFits
  <2>4. CacheFits(x.symbol)'
    <3>1. PICK s \in Securities : s = x.symbol
      BY <1>2
    <3>2. SUFFICES ASSUME s \notin torn PROVE CacheFits(s)'
      BY <1>2, <3>1 DEF CacheFits
    <3>3. WrittenOn(w, s)
      BY <1>1, <1>2, <2>1, <3>1 DEF WrittenOn
    <3>4. Same(x.row, table[s]) /\ \A v \in Savers : WrittenOn(v, s) => v = w
      BY <1>1, <3>2, <3>3 DEF TornFits, CachesFit, CacheFits
    <3>5. \A v \in Savers : ~WrittenOn(v, s)'
      BY <1>3, <3>4 DEF WrittenOn
    <3>6. s \notin unheard' => announced'[s] = table[s].market
      <4>1. CASE x.tells
        BY <2>2, <3>1, <3>4, <4>1 DEF Same
      <4>2. CASE ~x.tells
        <5>1. x.tells = FALSE
          BY <1>2, <4>2 DEF Saves
        <5>2. \A v \in Savers : WrittenOn(v, s) => saver[v].tells = FALSE
          BY <1>1, <3>4, <5>1
        <5> QED
          BY <2>1, <2>2, <3>1, <3>2, <4>2, <5>2 DEF TornFits, CachesFit, CacheFits
      <4> QED
        BY <4>1, <4>2
    <3> QED
      BY <1>2, <2>2, <3>1, <3>4, <3>5, <3>6 DEF CacheFits, Same
  <2>5. CachesFit'
    BY <2>3, <2>4 DEF CachesFit
  <2> QED
    BY <1>4, <2>5 DEF TornFits
<1> QED
  BY <1>5, <1>6

LEMMA WeightsTear ==
  ASSUME RegistryTyped, TornFits,
         \/ \E weights \in [Securities -> Weights] : ZeroWeights(weights)
         \/ \E s \in Securities : UpdateWeight(s)
  PROVE  TornFits' /\ DelistedStay
<1>1. /\ \A s \in Securities : /\ table'[s].market = table[s].market
                               /\ table'[s].suspended = table[s].suspended
      /\ UNCHANGED <<cache, saver, missing, announced, torn, unheard>>
  BY WeightsTyped
<1>2. /\ \A w \in Savers : saver[w] # Free => saver[w].symbol \in Securities
      /\ \A y \in missing : y.symbol \in Securities
  BY DEF RegistryTyped, Saves, Marks
<1>3. CopiesFit' /\ MissingFits'
  BY <1>1, <1>2 DEF TornFits, CopiesFit, MissingFits, CopyFits
<1>4. CachesFit'
  BY <1>1 DEF TornFits, CachesFit, CacheFits, Same, WrittenOn
<1>5. DelistedStay
  BY <1>1 DEF DelistedStay
<1> QED
  BY <1>3, <1>4, <1>5 DEF TornFits

LEMMA RestartTears ==
  ASSUME RegistryTyped, TornFits, RestartRegistry
  PROVE  TornFits'
<1>1. /\ cache' = table /\ saver' = [w \in Savers |-> Free] /\ missing' = {}
      /\ UNCHANGED <<table, announced, torn>>
      /\ unheard' = unheard \cup
           {saver[w].symbol : w \in {v \in Savers : saver[v] # Free /\ saver[v].tells /\ saver[v].written}}
  BY DEF RestartRegistry
<1>2. CopiesFit' /\ MissingFits'
  BY <1>1 DEF CopiesFit, MissingFits
<1>3. ASSUME NEW s \in Securities PROVE CacheFits(s)'
  <2>1. \A w \in Savers : ~WrittenOn(w, s)'
    BY <1>1 DEF WrittenOn
  <2>2. s \notin unheard' => \A w \in Savers : WrittenOn(w, s) => saver[w].tells = FALSE
    BY <1>1 DEF WrittenOn, RegistryTyped, Saves
  <2>3. s \notin torn /\ s \notin unheard' => announced[s] = table[s].market
    BY <1>1, <2>2 DEF TornFits, CachesFit, CacheFits
  <2> QED
    BY <1>1, <2>1, <2>3 DEF CacheFits, Same
<1> QED
  BY <1>2, <1>3 DEF TornFits, CachesFit

LEMMA OthersTear ==
  ASSUME RegistryTyped, TornFits,
         UNCHANGED <<table, cache, saver, announced, torn, unheard>>,
         UNCHANGED missing \/ \E limit \in 0 .. MaxDelist : CompareRosters(limit)
  PROVE  TornFits'
<1>1. CopiesFit' /\ CachesFit'
  BY DEF TornFits, CopiesFit, CachesFit, CopyFits, CacheFits, WrittenOn
<1>2. MissingFits'
  <2>1. CASE UNCHANGED missing
    BY <2>1 DEF TornFits, MissingFits
  <2>2. CASE missing' # missing
    <3>1. \A y \in missing' : \E s \in Securities : y = [symbol |-> s, row |-> table[s], stale |-> FALSE]
      BY <2>2 DEF CompareRosters, MissingFromRosters
    <3> QED
      BY <3>1 DEF MissingFits
  <2> QED
    BY <2>1, <2>2
<1> QED
  BY <1>1, <1>2 DEF TornFits

LEMMA BeginningTears ==
  ASSUME RegistryTyped, TornFits,
         \/ \E m \in Markets, s \in Securities : ProcessItem(m, s)
         \/ \E s \in Securities : ChangeHoldings(s) \/ DelistOfficially(s)
         \/ \E y \in missing : MarkMissing(y)
  PROVE  TornFits'
<1>1. missing' \subseteq missing /\ UNCHANGED <<table, cache, announced, torn, unheard>>
  BY DEF ProcessItem, ChangeHoldings, DelistOfficially, MarkMissing
<1>2. ASSUME NEW m \in Markets, NEW s \in Securities, ProcessItem(m, s) PROVE TornFits'
  <2>1. CASE UNCHANGED saver
    <3>1. UNCHANGED missing
      BY <1>2 DEF ProcessItem
    <3> QED
      BY <1>1, <2>1, <3>1, OthersTear
  <2>2. CASE saver' # saver
    <3>1. PICK x \in Saves : /\ Began(m, x) /\ x.symbol = s /\ x.row.market = m
                             /\ x.row.suspended = FindBySymbol(s).suspended
                             /\ (x.tells <=> FindBySymbol(s).market # m)
                             /\ (x.stale <=> Written(s))
      BY <1>2, <2>2, ProcessItemBegins
    <3>2. CopyFits(x)
      BY <3>1, FoundIsCurrent DEF CopyFits, Same
    <3> QED
      BY <1>1, <3>1, <3>2, BeganTears, RegistryLimits
  <2> QED
    BY <2>1, <2>2
<1>3. ASSUME NEW s \in Securities, ChangeHoldings(s) PROVE TornFits'
  <2>1. PICK x \in Saves : /\ Began(Holdings, x) /\ x.symbol = s /\ x.row = FindBySymbol(s)
                           /\ (x.stale <=> Written(s))
    BY <1>3, ChangeHoldingsBegins
  <2>2. CopyFits(x)
    BY <2>1, FoundIsCurrent DEF CopyFits, Same
  <2> QED
    BY <1>1, <2>1, <2>2, BeganTears, RegistryLimits
<1>4. ASSUME NEW s \in Securities, DelistOfficially(s) PROVE TornFits'
  <2>1. PICK x \in Saves : /\ Began(Delist, x) /\ x.symbol = s
                           /\ x.row.market = FindBySymbol(s).market /\ x.row.suspended = TRUE
                           /\ (x.stale <=> Written(s))
    BY <1>4, DelistOfficiallyBegins
  <2>2. CopyFits(x)
    BY <2>1, FoundIsCurrent DEF CopyFits, Same
  <2> QED
    BY <1>1, <2>1, <2>2, BeganTears, RegistryLimits
<1>5. ASSUME NEW y \in missing, MarkMissing(y) PROVE TornFits'
  <2>1. PICK x \in Saves : /\ Began(Delist, x) /\ x.symbol = y.symbol
                           /\ x.row.market = y.row.market /\ x.row.suspended = TRUE
                           /\ x.stale = y.stale
    BY <1>5, MarkMissingBegins
  <2>2. CopyFits(x)
    BY <2>1 DEF TornFits, MissingFits, CopyFits
  <2> QED
    BY <1>1, <2>1, <2>2, BeganTears, RegistryLimits
<1> QED
  BY <1>2, <1>3, <1>4, <1>5

LEMMA RegistryTears ==
  ASSUME RegistryTyped, TornFits, SRNext
  PROVE  TornFits' /\ DelistedStay
<1>1. CASE \/ \E weights \in [Securities -> Weights] : ZeroWeights(weights)
           \/ \E s \in Securities : UpdateWeight(s)
  BY <1>1, WeightsTear
<1>2. CASE \E w \in Savers : WriteRow(w)
  BY <1>2, WriteRowTears
<1>3. CASE \E w \in Savers : SaveFails(w) \/ WriteCache(w)
  <2>1. UNCHANGED table
    BY <1>3 DEF SaveFails, WriteCache
  <2> QED
    BY <1>3, <2>1, SaveEndsTears DEF DelistedStay
<1>4. CASE \/ \E m \in Markets, s \in Securities : ProcessItem(m, s)
           \/ \E s \in Securities : ChangeHoldings(s) \/ DelistOfficially(s)
           \/ \E y \in missing : MarkMissing(y)
  <2>1. UNCHANGED table
    BY <1>4 DEF ProcessItem, ChangeHoldings, DelistOfficially, MarkMissing
  <2> QED
    BY <1>4, <2>1, BeginningTears DEF DelistedStay
<1>5. CASE RestartRegistry
  <2>1. UNCHANGED table
    BY <1>5 DEF RestartRegistry
  <2> QED
    BY <1>5, <2>1, RestartTears DEF DelistedStay
<1>6. CASE \/ \E s \in Securities, m \in Markets \cup {Gone} : Move(s, m)
           \/ \E m \in Markets : FetchItems(m)
           \/ FetchRoster \/ RosterFails
           \/ \E limit \in 0 .. MaxDelist : CompareRosters(limit)
  <2>1. /\ UNCHANGED <<table, cache, saver, announced, torn, unheard>>
        /\ UNCHANGED missing \/ \E limit \in 0 .. MaxDelist : CompareRosters(limit)
    BY <1>6 DEF Move, FetchItems, FetchRoster, RosterFails, CompareRosters
  <2> QED
    BY <2>1, OthersTear DEF DelistedStay
<1> QED
  BY <1>1, <1>2, <1>3, <1>4, <1>5, <1>6 DEF SRNext

LEMMA RegistryStartsWhole ==
  ASSUME SRInit
  PROVE  TornFits
<1>1. /\ cache = table /\ missing = {} /\ saver = [w \in Savers |-> Free]
      /\ announced = [s \in Securities |-> table[s].market]
  BY DEF SRInit
<1> QED
  BY <1>1 DEF TornFits, CopiesFit, MissingFits, CachesFit, CacheFits, WrittenOn, Same

-----------------------------------------------------------------------------
RegistryInvariant == RegistryTyped /\ UnlistedFits /\ DelistFits /\ TornFits

LEMMA RegistryStarts == SRInit => RegistryInvariant
BY RegistryStartsTyped, UnlistedStarts, RegistryStartsUnmarked, RegistryStartsWhole
DEF RegistryInvariant

LEMMA RegistryKeeps == RegistryInvariant /\ [SRNext]_srVars => RegistryInvariant'
<1>1. ASSUME RegistryInvariant, SRNext PROVE RegistryInvariant'
  BY <1>1, RegistryStaysTyped, UnlistedStays, RegistryDelists, RegistryTears
  DEF RegistryInvariant
<1>2. ASSUME RegistryInvariant, UNCHANGED srVars PROVE RegistryInvariant'
  <2>1. UNCHANGED srVars /\ RegistryTyped /\ UnlistedFits /\ DelistFits /\ TornFits
    BY <1>2 DEF RegistryInvariant
  <2>2. RegistryTyped'
    BY <2>1 DEF srVars, RegistryTyped
  <2>3. DelistFits'
    BY <2>1 DEF srVars, DelistFits, RostersFit, MarksFit
  <2>4. UnlistedFits'
    BY <2>1 DEF srVars, UnlistedFits
  <2>5. TornFits'
    BY <2>1 DEF srVars, TornFits, CopiesFit, MissingFits, CachesFit, CopyFits, CacheFits, WrittenOn
  <2> QED
    BY <2>2, <2>3, <2>4, <2>5 DEF RegistryInvariant
<1> QED
  BY <1>1, <1>2

\* SRTypeOK, for any stocks, markets, weights and limits.
THEOREM RegistryTypeCorrect == SRSpec => []SRTypeOK
<1>1. RegistryInvariant => SRTypeOK
  <2> SUFFICES ASSUME RegistryTyped PROVE SRTypeOK
    BY DEF RegistryInvariant
  <2>1. \A w \in Savers : saver[w] = Free \/ saver[w].row \in StockRows
    BY DEF RegistryTyped, Saves
  <2>2. \A y \in missing : y.row \in StockRows
    BY DEF RegistryTyped, Marks
  <2> QED
    BY <2>1, <2>2 DEF RegistryTyped, SRTypeOK, StockRows
<1> QED
  BY <1>1, RegistryStarts, RegistryKeeps, PTL DEF SRSpec

\* SavesReachEveryone, for any stocks, markets and numbers of saves: between saves the
\* cache and the last event agree with the row, through failed saves, overlapping runs,
\* restarts and refreshes of the weights, unless an outdated copy was saved.
THEOREM SavesReach == SRSpec => []SavesReachEveryone
<1>1. RegistryInvariant => SavesReachEveryone
  <2> SUFFICES ASSUME TornFits, NEW s \in Securities, ~Saving(s), s \notin torn
               PROVE  /\ cache[s].market = table[s].market /\ cache[s].suspended = table[s].suspended
                      /\ s \notin unheard => announced[s] = table[s].market
    BY DEF RegistryInvariant, SavesReachEveryone, CacheFollowsTable, ChangesAreAnnounced
  <2>1. \A w \in Savers : ~WrittenOn(w, s)
    BY DEF Saving, WrittenOn
  <2> QED
    BY <2>1 DEF TornFits, CachesFit, CacheFits, Same
<1> QED
  BY <1>1, RegistryStarts, RegistryKeeps, PTL DEF SRSpec

\* DelistedStayGone, for any stocks, markets and numbers of moves: whatever the rosters
\* miss while they are fetched, only a stock that was gone or on the move is marked, and
\* its mark goes only with an outdated copy.
THEOREM DelistedStayMarked == SRSpec => DelistedStayGone
<1>1. RegistryInvariant => OnlyGoneAreDelisted
  BY DEF RegistryInvariant, DelistFits, MarksFit, OnlyGoneAreDelisted
<1>2. RegistryInvariant /\ RegistryInvariant' /\ [SRNext]_srVars
        => [OnlyGoneAreDelisted' /\ DelistedStay]_srVars
  <2>1. RegistryInvariant' => OnlyGoneAreDelisted'
    BY <1>1, PTL
  <2>2. RegistryInvariant /\ SRNext => DelistedStay
    BY RegistryTears DEF RegistryInvariant
  <2> QED
    BY <2>1, <2>2
<1> QED
  BY <1>2, RegistryStarts, RegistryKeeps, PTL DEF SRSpec, DelistedStayGone
-----------------------------------------------------------------------------
(* The pool of price sites, for any callers and any number of sites.       *)

\* Division with a remainder.
LEMMA SiteOfNumber ==
  ASSUME NEW i \in Nat
  PROVE  SiteOf(i) \in Sites /\ i \div NSites \in Nat /\ i = NSites * (i \div NSites) + SiteOf(i)
BY SitePoolAssumption DEF SiteOf, Sites

\* A number is a multiple of the sites and a rest in one way only.
LEMMA RestIsUnique ==
  ASSUME NEW p \in Int, NEW q \in Int, NEW r \in Sites, NEW s \in Sites,
         NSites * p + r = NSites * q + s
  PROVE  r = s
<1>1. NSites \in Int /\ NSites > 0 /\ r \in Int /\ s \in Int
  BY SitePoolAssumption DEF Sites
<1>2. CASE p = q
  BY <1>1, <1>2
<1>3. CASE p > q
  <2>1. NSites * (p - q) >= NSites
    BY <1>1, <1>3
  <2>2. NSites * (p - q) = NSites * p - NSites * q
    BY <1>1
  <2>3. NSites * p \in Int /\ NSites * q \in Int
    BY <1>1
  <2> HIDE DEF SiteOf
  <2> QED
    BY <1>1, <2>1, <2>2, <2>3 DEF Sites
<1>4. CASE q > p
  <2>1. NSites * (q - p) >= NSites
    BY <1>1, <1>4
  <2>2. NSites * (q - p) = NSites * q - NSites * p
    BY <1>1
  <2>3. NSites * p \in Int /\ NSites * q \in Int
    BY <1>1
  <2> QED
    BY <1>1, <2>1, <2>2, <2>3 DEF Sites
<1> QED
  BY <1>2, <1>3, <1>4

\* As many numbers in a row as there are sites stand for different sites ...
LEMMA RowIsDistinct ==
  ASSUME NEW i \in Nat, NEW j \in Nat, i < j, j - i < NSites
  PROVE  SiteOf(i) # SiteOf(j)
<1> SUFFICES ASSUME SiteOf(i) = SiteOf(j) PROVE FALSE
  OBVIOUS
<1> DEFINE p == i \div NSites  q == j \div NSites
<1>1. p \in Nat /\ q \in Nat /\ i = NSites * p + SiteOf(i) /\ j = NSites * q + SiteOf(j)
  BY SiteOfNumber
<1>2. NSites \in Int /\ NSites > 0 /\ SiteOf(i) \in Int
  BY SitePoolAssumption, SiteOfNumber DEF Sites
<1> HIDE DEF p, q
<1>3. NSites * q - NSites * p = NSites * (q - p) /\ NSites * p \in Int /\ NSites * q \in Int
  BY <1>1, <1>2
<1>4. NSites * (q - p) > 0 /\ NSites * (q - p) < NSites
  BY <1>1, <1>2, <1>3
<1>5. q - p >= 1
  BY <1>1, <1>2, <1>4
<1>6. NSites * (q - p) >= NSites
  BY <1>1, <1>2, <1>5
<1> QED
  BY <1>1, <1>2, <1>4, <1>6

\* ... and for every one of them.
LEMMA RowIsComplete ==
  ASSUME NEW f \in Nat, NEW s \in Sites
  PROVE  \E i \in f .. f + NSites - 1 : SiteOf(i) = s
<1>1. NSites \in Nat /\ NSites > 0 /\ s \in 0 .. NSites - 1
  BY SitePoolAssumption DEF Sites
<1> DEFINE r == SiteOf(f)  p == f \div NSites
           i == IF s >= r THEN f + (s - r) ELSE f + NSites + (s - r)
           q == IF s >= r THEN p ELSE p + 1
<1>2. r \in 0 .. NSites - 1 /\ p \in Nat /\ f = NSites * p + r
  BY SiteOfNumber DEF Sites
<1> HIDE DEF r, p
<1>3. i \in f .. f + NSites - 1 /\ i \in Nat /\ q \in Int
  BY <1>1, <1>2
<1>4. NSites * (p + 1) = NSites * p + NSites /\ NSites * p \in Int
  BY <1>1, <1>2
<1>5. i = NSites * q + s
  BY <1>1, <1>2, <1>4
<1> HIDE DEF i, q
<1>6. SiteOf(i) = s
  <2>1. i = NSites * (i \div NSites) + SiteOf(i) /\ i \div NSites \in Int /\ SiteOf(i) \in Sites
    BY <1>3, SiteOfNumber
  <2> QED
    BY <1>3, <1>5, <2>1, RestIsUnique
<1> QED
  BY <1>3, <1>6

-----------------------------------------------------------------------------
(* What a round has achieved.                                              *)

Waiting(c) == IF site[c] = NoSite THEN 0 ELSE 1

\* A call gives up after as many trials as there are sites.
CallFits(c) ==
    /\ site[c] # NoSite => call[c] = "calling"
    /\ Trials(c) <= NSites
    /\ call[c] = "calling" => Trials(c) < NSites
    /\ call[c] = "failed" => Trials(c) = NSites

\* The round has drawn the numbers from f on.
RoundFrom(f) ==
    /\ f <= index
    /\ \A i \in f .. index - 1 :
            \E c \in InRound : tried[c][SiteOf(i)] > 0 \/ site[c] = SiteOf(i)
    /\ \A c \in InRound : Trials(c) + Waiting(c) <= index - f

\* A call that is alone has drawn all of them, and no site twice.
SoleFrom(f, c) ==
    /\ index - f = Trials(c) + Waiting(c)
    /\ \A s \in Sites :
        /\ tried[c][s] + (IF site[c] = s THEN 1 ELSE 0) <= 1
        /\ tried[c][s] > 0 \/ site[c] = s => \E i \in f .. index - 1 : SiteOf(i) = s

RoundStart(f) == RoundFrom(f) /\ \A c \in Callers : InRound = {c} => SoleFrom(f, c)

PoolTypes ==
    /\ index \in Nat /\ rounds \in 0 .. MaxRounds
    /\ call \in [Callers -> {"idle", "calling", "ok", "failed"}]
    /\ site \in [Callers -> Sites \cup {NoSite}]
    /\ tried \in [Callers -> [Sites -> Nat]]

PoolInvariant ==
    PoolTypes /\ (\A c \in Callers : CallFits(c)) /\ \E f \in Nat : RoundStart(f)

LEMMA SitesAreFinite ==
    /\ IsFiniteSet(Sites) /\ NSites \in Nat /\ NSites > 0
    /\ NoSite \notin Sites /\ \A s \in Sites : s \in Int
BY SitePoolAssumption, FS_Interval DEF Sites, NoSite

LEMMA TrialsAreCounted ==
  ASSUME PoolTypes
  PROVE  \A c \in Callers : Trials(c) \in Nat /\ Waiting(c) \in 0 .. 1
<1> TAKE c \in Callers
<1>1. \A s \in Sites : tried[c][s] \in Nat
  BY DEF PoolTypes
<1>2. Trials(c) \in Nat
  BY <1>1, SitesAreFinite, SumIsNatural DEF Trials
<1> QED
  BY <1>2 DEF Waiting

\* One more trial of a site is one trial more.
LEMMA OneTrialMore ==
  ASSUME NEW t \in [Sites -> Nat], NEW s \in Sites
  PROVE  SumFunctionOnSet([t EXCEPT ![s] = @ + 1], Sites) = SumFunctionOnSet(t, Sites) + 1
<1> DEFINE u == [t EXCEPT ![s] = @ + 1]
           R == Sites \ {s}
<1>1. \A x \in Sites : u[x] \in Int /\ t[x] \in Int
  OBVIOUS
<1>2. u[s] = t[s] + 1 /\ t[s] \in Nat /\ \A x \in R : u[x] = t[x]
  OBVIOUS
<1>3. IsFiniteSet(Sites) /\ IsFiniteSet(R)
  BY SitesAreFinite, FS_Subset
<1> HIDE DEF u
<1>4. SumFunctionOnSet(u, Sites) = u[s] + SumFunctionOnSet(u, R)
  BY <1>1, <1>3, SumTakesOut
<1>5. SumFunctionOnSet(t, Sites) = t[s] + SumFunctionOnSet(t, R)
  BY <1>1, <1>3, SumTakesOut
<1>6. SumFunctionOnSet(u, R) = SumFunctionOnSet(t, R)
  BY <1>2, <1>3, SumsAgree
<1>7. SumFunctionOnSet(t, R) \in Int
  BY <1>1, <1>3, SumIsInteger
<1>8. SumFunctionOnSet(u, Sites) = SumFunctionOnSet(t, Sites) + 1
  BY <1>2, <1>4, <1>5, <1>6, <1>7
<1> QED
  BY <1>8 DEF u

LEMMA NoTrials ==
  SumFunctionOnSet(Untried, Sites) = 0
<1>1. \A s \in Sites : Untried[s] \in Nat /\ Untried[s] = 0
  BY DEF Untried
<1> QED
  BY <1>1, SitesAreFinite, SumIsNatural


LEMMA PoolStarts == SPInit => PoolInvariant
<1> SUFFICES ASSUME SPInit PROVE PoolInvariant
  OBVIOUS
<1>1. PoolTypes
  BY SitePoolAssumption DEF SPInit, PoolTypes, Untried
<1>2. \A c \in Callers : Trials(c) = 0
  BY NoTrials DEF SPInit, Trials
<1>3. \A c \in Callers : CallFits(c)
  BY <1>2, SitesAreFinite DEF SPInit, CallFits, Untried
<1>4. InRound = {}
  BY DEF SPInit, InRound
<1>5. RoundStart(0)
  BY <1>4 DEF SPInit, RoundStart, RoundFrom
<1> QED
  BY <1>1, <1>3, <1>5 DEF PoolInvariant

\* A round starts when no call waits for a site, and has drawn nothing.
LEMMA RoundStarts ==
  ASSUME PoolInvariant, NEW symbols \in SUBSET Callers, StartRound(symbols)
  PROVE  PoolInvariant'
<1> USE DEF PoolInvariant
<1>1. PoolTypes'
  BY SitePoolAssumption DEF StartRound, PoolTypes, Untried
<1>2. \A c \in Callers : site[c] = NoSite /\ site'[c] = NoSite
  BY DEF StartRound, CallFits
<1>3. \A c \in Callers : tried'[c] = Untried
  BY DEF StartRound
<1>4. \A c \in Callers : Trials(c)' = 0
  BY <1>3, NoTrials DEF Trials
<1>5. \A c \in Callers : call'[c] \in {"idle", "calling"}
  BY DEF StartRound
<1>6. (\A c \in Callers : CallFits(c))'
  BY <1>2, <1>4, <1>5, SitesAreFinite DEF CallFits
<1>7. index' = index /\ index \in Nat
  BY DEF StartRound, PoolTypes
<1>8. RoundStart(index)'
  <2>1. \A c \in Callers : Waiting(c)' = 0
    BY <1>2 DEF Waiting
  <2>2. InRound' \subseteq Callers
    BY DEF InRound
  <2>3. RoundFrom(index)'
    BY <1>4, <1>7, <2>1, <2>2 DEF RoundFrom
  <2>4. ASSUME NEW c \in Callers PROVE SoleFrom(index, c)'
    <3>1. \A s \in Sites : tried'[c][s] = 0 /\ site'[c] # s
      BY <1>2, <1>3, SitesAreFinite DEF Untried
    <3> QED
      BY <1>4, <1>7, <2>1, <3>1 DEF SoleFrom
  <2> QED
    BY <2>3, <2>4 DEF RoundStart
<1> QED
  BY <1>1, <1>6, <1>7, <1>8

\* A call takes a number.  Alone, it has drawn less than a row, so its next site is new.
LEMMA SiteIsTaken ==
  ASSUME PoolInvariant, NEW c \in Callers, TakeSite(c)
  PROVE  PoolInvariant'
<1> USE DEF PoolInvariant
<1> DEFINE s == SiteOf(index)
<1>1. index \in Nat /\ s \in Sites /\ index' = index + 1
  BY SiteOfNumber DEF PoolTypes, TakeSite
<1>2. /\ site' = [site EXCEPT ![c] = s] /\ site[c] = NoSite /\ call[c] = "calling"
      /\ UNCHANGED <<call, tried, rounds>>
  BY DEF TakeSite
<1> HIDE DEF s
<1>3. PoolTypes'
  BY <1>1, <1>2 DEF PoolTypes
<1>4. site'[c] = s /\ \A d \in Callers \ {c} : site'[d] = site[d]
  BY <1>2 DEF PoolTypes
<1>5. \A d \in Callers : Trials(d)' = Trials(d)
  BY <1>2 DEF Trials
<1>6. (\A d \in Callers : CallFits(d))'
  BY <1>2, <1>4, <1>5 DEF CallFits
<1>7. InRound' = InRound /\ c \in InRound
  BY <1>2 DEF InRound
<1>8. PICK f \in Nat : RoundStart(f)
  OBVIOUS
<1>9. Waiting(c)' = 1 /\ Waiting(c) = 0 /\ \A d \in Callers \ {c} : Waiting(d)' = Waiting(d)
  BY <1>1, <1>2, <1>4, SitesAreFinite DEF Waiting
<1>10. \A d \in Callers : Trials(d) \in Nat /\ Waiting(d) \in 0 .. 1
  BY TrialsAreCounted
<1>11. RoundFrom(f)'
  <2>1. f <= index'
    BY <1>1, <1>8 DEF RoundStart, RoundFrom
  <2>2. ASSUME NEW i \in f .. index' - 1
        PROVE  \E d \in InRound' : tried'[d][SiteOf(i)] > 0 \/ site'[d] = SiteOf(i)
    <3>1. CASE i = index
      BY <1>4, <1>7, <3>1 DEF s
    <3>2. CASE i # index
      <4>1. i \in f .. index - 1
        BY <1>1, <3>2
      <4>2. PICK d \in InRound : tried[d][SiteOf(i)] > 0 \/ site[d] = SiteOf(i)
        BY <1>8, <4>1 DEF RoundStart, RoundFrom
      <4>3. site[c] # SiteOf(i)
        <5>1. SiteOf(i) \in Sites
          BY <4>1, SiteOfNumber
        <5> QED
          BY <1>2, <5>1, SitesAreFinite
      <4>4. d \in Callers
        BY DEF InRound
      <4> QED
        BY <1>2, <1>4, <1>7, <4>2, <4>3, <4>4
    <3> QED
      BY <3>1, <3>2
  <2>3. ASSUME NEW d \in InRound
        PROVE  Trials(d)' + Waiting(d)' <= index' - f
    <3>1. d \in Callers /\ Trials(d) + Waiting(d) <= index - f
      BY <1>8 DEF RoundStart, RoundFrom, InRound
    <3>2. Waiting(d)' <= Waiting(d) + 1 /\ Waiting(d)' \in Int
      BY <1>9, <1>10, <3>1
    <3> QED
      BY <1>1, <1>5, <1>10, <3>1, <3>2
  <2> QED
    BY <1>7, <2>1, <2>2, <2>3 DEF RoundFrom
<1>12. ASSUME NEW d \in Callers, InRound = {d}
       PROVE  SoleFrom(f, d)'
  <2>1. d = c /\ SoleFrom(f, c)
    BY <1>7, <1>8, <1>12 DEF RoundStart
  <2>2. index - f = Trials(c) /\ Trials(c) < NSites
    <3>1. Trials(c) \in Nat /\ index - f = Trials(c) + Waiting(c)
      BY <1>10, <2>1 DEF SoleFrom
    <3>2. Trials(c) < NSites
      BY <1>2 DEF CallFits
    <3> QED
      BY <1>9, <3>1, <3>2
  <2>3. index' - f = Trials(c)' + Waiting(c)'
    BY <1>1, <1>5, <1>9, <1>10, <2>2
  <2>4. \A i \in f .. index - 1 : SiteOf(i) # s
    <3> SUFFICES ASSUME NEW i \in f .. index - 1 PROVE SiteOf(i) # s
      OBVIOUS
    <3>1. i \in Nat /\ i < index /\ index - i < NSites
      BY <1>1, <2>2, SitesAreFinite
    <3> QED
      BY <1>1, <3>1, RowIsDistinct DEF s
  <2>5. tried[c][s] = 0
    <3>1. ~(tried[c][s] > 0) /\ tried[c][s] \in Nat
      BY <1>1, <2>1, <2>4 DEF SoleFrom, PoolTypes
    <3> QED
      BY <3>1
  <2>6. ASSUME NEW x \in Sites
        PROVE  /\ tried'[c][x] + (IF site'[c] = x THEN 1 ELSE 0) <= 1
               /\ tried'[c][x] > 0 \/ site'[c] = x => \E i \in f .. index' - 1 : SiteOf(i) = x
    <3>1. CASE x = s
      <4>1. index \in f .. index' - 1
        BY <1>1, <1>8 DEF RoundStart, RoundFrom
      <4> QED
        BY <1>2, <1>4, <2>5, <3>1, <4>1 DEF s
    <3>2. CASE x # s
      <4>1. site'[c] # x /\ site[c] # x /\ tried'[c] = tried[c]
        BY <1>2, <1>4, <3>2, SitesAreFinite
      <4>2. f .. index - 1 \subseteq f .. index' - 1
        BY <1>1
      <4>3. /\ tried[c][x] + 0 <= 1
            /\ tried[c][x] > 0 => \E i \in f .. index - 1 : SiteOf(i) = x
        BY <2>1, <4>1 DEF SoleFrom
      <4> QED
        BY <4>1, <4>2, <4>3
    <3> QED
      BY <3>1, <3>2
  <2> QED
    BY <2>1, <2>3, <2>6 DEF SoleFrom
<1>13. RoundStart(f)'
  BY <1>7, <1>11, <1>12 DEF RoundStart
<1> QED
  BY <1>3, <1>6, <1>13

\* An answer turns the site a call waits for into one it has tried.
LEMMA SiteAnswers ==
  ASSUME PoolInvariant, NEW c \in Callers, NEW answered \in BOOLEAN, Answer(c, answered)
  PROVE  PoolInvariant'
<1> USE DEF PoolInvariant
<1> DEFINE s == site[c]
<1>1. s \in Sites /\ call[c] = "calling" /\ Trials(c) < NSites /\ s # NoSite
  BY SitesAreFinite DEF Answer, PoolTypes, CallFits
<1>2. /\ tried' = [tried EXCEPT ![c] = [tried[c] EXCEPT ![s] = @ + 1]]
      /\ site' = [site EXCEPT ![c] = NoSite]
      /\ UNCHANGED <<index, rounds>>
  BY DEF Answer, PoolTypes
<1>3. PICK a \in {"ok", "failed", "calling"} :
        /\ call' = [call EXCEPT ![c] = a]
        /\ a = "failed" => Trials(c) + 1 = NSites
        /\ a = "calling" => Trials(c) + 1 # NSites
  BY DEF Answer
<1>4. tried[c] \in [Sites -> Nat] /\ index \in Nat
  BY DEF PoolTypes
<1> HIDE DEF s
<1>5. /\ tried'[c] = [tried[c] EXCEPT ![s] = @ + 1] /\ site'[c] = NoSite /\ call'[c] = a
      /\ \A d \in Callers \ {c} : tried'[d] = tried[d] /\ site'[d] = site[d] /\ call'[d] = call[d]
  BY <1>2, <1>3 DEF PoolTypes
<1>6. \A x \in Sites : tried'[c][x] = IF x = s THEN tried[c][x] + 1 ELSE tried[c][x]
  BY <1>4, <1>5
<1>7. PoolTypes'
  BY <1>1, <1>2, <1>3, <1>4 DEF PoolTypes
<1>8. /\ Trials(c)' = Trials(c) + 1 /\ Waiting(c)' = 0 /\ Waiting(c) = 1
      /\ \A d \in Callers \ {c} : Trials(d)' = Trials(d) /\ Waiting(d)' = Waiting(d)
  <2>1. Trials(c)' = Trials(c) + 1
    BY <1>1, <1>4, <1>5, OneTrialMore DEF Trials
  <2>2. \A d \in Callers \ {c} : Trials(d)' = Trials(d)
    BY <1>5 DEF Trials
  <2>3. Waiting(c)' = 0 /\ Waiting(c) = 1 /\ \A d \in Callers \ {c} : Waiting(d)' = Waiting(d)
    BY <1>1, <1>5 DEF Waiting, s
  <2> QED
    BY <2>1, <2>2, <2>3
<1>9. \A d \in Callers : Trials(d) \in Nat /\ Waiting(d) \in 0 .. 1
  BY TrialsAreCounted
<1>10. (\A d \in Callers : CallFits(d))'
  <2>1. ASSUME NEW d \in Callers, d # c PROVE CallFits(d)'
    BY <1>2, <1>5, <1>8, <2>1 DEF CallFits
  <2>2. CallFits(c)'
    <3>1. Trials(c)' <= NSites /\ (Trials(c) + 1 # NSites => Trials(c)' < NSites)
      BY <1>1, <1>8, <1>9, SitesAreFinite
    <3> QED
      BY <1>3, <1>5, <1>8, <3>1 DEF CallFits
  <2> QED
    BY <2>1, <2>2
<1>11. InRound' = InRound /\ c \in InRound
  <2>1. call[c] # "idle" /\ a # "idle"
    BY <1>1, <1>3
  <2> QED
    BY <1>5, <2>1 DEF InRound
<1>12. PICK f \in Nat : RoundStart(f)
  OBVIOUS
<1>13. RoundFrom(f)'
  <2>1. f <= index'
    BY <1>2, <1>12 DEF RoundStart, RoundFrom
  <2>2. ASSUME NEW i \in f .. index' - 1
        PROVE  \E d \in InRound' : tried'[d][SiteOf(i)] > 0 \/ site'[d] = SiteOf(i)
    <3>1. i \in f .. index - 1 /\ SiteOf(i) \in Sites
      BY <1>2, <1>4, SiteOfNumber
    <3>2. PICK d \in InRound : tried[d][SiteOf(i)] > 0 \/ site[d] = SiteOf(i)
      BY <1>12, <3>1 DEF RoundStart, RoundFrom
    <3>3. d \in Callers
      BY DEF InRound
    <3>4. CASE d # c
      BY <1>5, <1>11, <3>2, <3>3, <3>4
    <3>5. CASE d = c
      <4>1. tried[c][SiteOf(i)] \in Nat
        BY <1>4, <3>1
      <4>2. tried'[c][SiteOf(i)] > 0
        BY <1>6, <3>1, <3>2, <3>5, <4>1 DEF s
      <4> QED
        BY <1>11, <4>2
    <3> QED
      BY <3>4, <3>5
  <2>3. ASSUME NEW d \in InRound
        PROVE  Trials(d)' + Waiting(d)' <= index' - f
    <3>1. d \in Callers /\ Trials(d) + Waiting(d) <= index - f
      BY <1>12 DEF RoundStart, RoundFrom, InRound
    <3>2. Trials(d)' + Waiting(d)' = Trials(d) + Waiting(d)
      BY <1>8, <1>9, <3>1
    <3> QED
      BY <1>2, <3>1, <3>2
  <2> QED
    BY <1>11, <2>1, <2>2, <2>3 DEF RoundFrom
<1>14. ASSUME NEW d \in Callers, InRound = {d}
       PROVE  SoleFrom(f, d)'
  <2>1. d = c /\ SoleFrom(f, c)
    BY <1>11, <1>12, <1>14 DEF RoundStart
  <2>2. index' - f = Trials(c)' + Waiting(c)'
    BY <1>2, <1>8, <1>9, <2>1 DEF SoleFrom
  <2>3. ASSUME NEW x \in Sites
        PROVE  /\ tried'[c][x] + (IF site'[c] = x THEN 1 ELSE 0) <= 1
               /\ tried'[c][x] > 0 \/ site'[c] = x => \E i \in f .. index' - 1 : SiteOf(i) = x
    <3>1. site'[c] # x /\ tried[c][x] \in Nat
      BY <1>4, <1>5, SitesAreFinite
    <3>2. /\ tried[c][x] + (IF site[c] = x THEN 1 ELSE 0) <= 1
          /\ tried[c][x] > 0 \/ site[c] = x => \E i \in f .. index - 1 : SiteOf(i) = x
      BY <2>1 DEF SoleFrom
    <3>3. tried'[c][x] = tried[c][x] + (IF site[c] = x THEN 1 ELSE 0)
      BY <1>6, <3>1 DEF s
    <3>4. tried'[c][x] > 0 => tried[c][x] > 0 \/ site[c] = x
      BY <3>1, <3>3
    <3>5. tried'[c][x] + 0 <= 1
      BY <3>1, <3>2, <3>3
    <3> QED
      BY <1>2, <3>1, <3>2, <3>4, <3>5
  <2> QED
    BY <2>1, <2>2, <2>3 DEF SoleFrom
<1>15. RoundStart(f)'
  BY <1>11, <1>13, <1>14 DEF RoundStart
<1> QED
  BY <1>7, <1>10, <1>15

LEMMA PoolKeeps == PoolInvariant /\ [SPNext]_spVars => PoolInvariant'
<1> SUFFICES ASSUME PoolInvariant, [SPNext]_spVars PROVE PoolInvariant'
  OBVIOUS
<1>1. CASE UNCHANGED spVars
  BY <1>1 DEF PoolInvariant, PoolTypes, CallFits, RoundStart, RoundFrom, SoleFrom, InRound,
       Trials, Waiting, spVars
<1>2. ASSUME NEW symbols \in (SUBSET Callers) \ {{}}, StartRound(symbols)
      PROVE  PoolInvariant'
  BY <1>2, RoundStarts
<1>3. ASSUME NEW c \in Callers, TakeSite(c)
      PROVE  PoolInvariant'
  BY <1>3, SiteIsTaken
<1>4. ASSUME NEW c \in Callers, NEW answered \in BOOLEAN, Answer(c, answered)
      PROVE  PoolInvariant'
  BY <1>4, SiteAnswers
<1> QED
  BY <1>1, <1>2, <1>3, <1>4 DEF SPNext

\* Type correctness of the pool (SPTypeOK): no call sends more requests than there are
\* sites, whatever numbers the others draw.
THEOREM PoolTypeCorrect == SPSpec => []SPTypeOK
<1>1. PoolInvariant => SPTypeOK
  <2> SUFFICES ASSUME PoolInvariant PROVE SPTypeOK
    OBVIOUS
  <2>1. PoolTypes /\ \A c \in Callers : CallFits(c)
    BY DEF PoolInvariant
  <2>2. \A c \in Callers : Trials(c) + (IF site[c] = NoSite THEN 0 ELSE 1) <= NSites
    <3> TAKE c \in Callers
    <3>1. Trials(c) \in Nat /\ NSites \in Nat
      BY <2>1, TrialsAreCounted, SitesAreFinite
    <3>2. Trials(c) <= NSites /\ (site[c] # NoSite => Trials(c) < NSites)
      BY <2>1 DEF CallFits
    <3> QED
      BY <3>1, <3>2
  <2> QED
    BY <2>1, <2>2 DEF PoolTypes, SPTypeOK
<1> QED
  BY <1>1, PoolStarts, PoolKeeps, PTL DEF SPSpec

\* A call that is alone tries every site once before it fails, and a round fails only after
\* it has tried every site (EverySiteIsTried), for any callers and number of sites: the numbers
\* that a failing call has drawn, or others have drawn in between, make a whole row.
THEOREM EverySiteGetsItsTurn == SPSpec => []EverySiteIsTried
<1>1. PoolInvariant => EverySiteIsTried
  <2> SUFFICES ASSUME PoolInvariant PROVE EverySiteIsTried
    OBVIOUS
  <2>1. PoolTypes /\ \A c \in Callers : CallFits(c)
    BY DEF PoolInvariant
  <2>2. PICK f \in Nat : RoundStart(f)
    BY DEF PoolInvariant
  <2>3. index \in Nat /\ NSites \in Nat
    BY <2>1, SitesAreFinite DEF PoolTypes
  <2>4. \A c \in Callers : call[c] = "failed" => site[c] = NoSite /\ Trials(c) = NSites
    BY <2>1 DEF CallFits
  \* Once a call has failed, a row has been drawn.
  <2>5. ASSUME NEW c \in InRound, call[c] = "failed", NEW s \in Sites
        PROVE  \E d \in InRound : tried[d][s] > 0 \/ site[d] = s
    <3>1. c \in Callers /\ Trials(c) + Waiting(c) <= index - f /\ Waiting(c) = 0
      BY <2>2, <2>4, <2>5 DEF RoundStart, RoundFrom, InRound, Waiting
    <3>2. NSites <= index - f
      BY <2>3, <2>4, <2>5, <3>1
    <3>3. PICK i \in f .. f + NSites - 1 : SiteOf(i) = s
      BY RowIsComplete
    <3>4. i \in f .. index - 1
      BY <2>3, <3>2
    <3> QED
      BY <2>2, <3>3, <3>4 DEF RoundStart, RoundFrom
  <2>6. SoleCallTriesEverySite
    <3> SUFFICES ASSUME NEW c \in Callers, InRound = {c}, call[c] = "failed", NEW s \in Sites
                 PROVE  tried[c][s] = 1
      BY DEF SoleCallTriesEverySite
    <3>1. SoleFrom(f, c) /\ site[c] # s /\ tried[c][s] \in Nat
      BY <2>1, <2>2, <2>4, SitesAreFinite DEF RoundStart, PoolTypes
    <3>2. tried[c][s] > 0
      BY <2>5, <3>1
    <3>3. tried[c][s] + 0 <= 1
      BY <3>1 DEF SoleFrom
    <3> QED
      BY <3>1, <3>2, <3>3
  <2>7. RoundTriesEverySite
    <3> SUFFICES ASSUME InRound # {}, \A c \in InRound : call[c] = "failed", NEW s \in Sites
                 PROVE  \E c \in InRound : tried[c][s] > 0
      BY DEF RoundTriesEverySite
    <3>1. PICK d \in InRound : tried[d][s] > 0 \/ site[d] = s
      BY <2>5
    <3>2. d \in Callers /\ call[d] = "failed"
      BY DEF InRound
    <3> QED
      BY <2>4, <3>1, <3>2, SitesAreFinite
  <2> QED
    BY <2>6, <2>7 DEF EverySiteIsTried
<1> QED
  BY <1>1, PoolStarts, PoolKeeps, PTL DEF SPSpec
-----------------------------------------------------------------------------
(* The file log, for any threads, limits, days and faults.                 *)

LEMMA LogLimits ==
    /\ Capacity \in Nat /\ Capacity > 0 /\ BatchSize \in Nat /\ BatchSize > 0
    /\ MaxSize \in Nat /\ MaxSize > 0 /\ DayLength \in Nat /\ DayLength > 0
    /\ MaxAge \in Nat /\ MaxLines \in Nat /\ MaxTime \in Nat /\ MaxFaults \in Nat
    /\ MaxAge >= DayLength /\ IsFiniteSet(Threads)
BY LogAssumption

LEMMA LinesAreFinite ==
    /\ IsFiniteSet(Lines) /\ Cardinality(Lines) = MaxLines
    /\ \A T \in SUBSET Lines : IsFiniteSet(T) /\ Cardinality(T) \in Nat
<1>1. IsFiniteSet(Lines) /\ Cardinality(Lines) = MaxLines
  <2>1. IsFiniteSet(1 .. MaxLines)
        /\ Cardinality(1 .. MaxLines) = IF 1 > MaxLines THEN 0 ELSE MaxLines - 1 + 1
    BY LogLimits, FS_Interval
  <2> QED
    BY <2>1, LogLimits DEF Lines
<1>2. ASSUME NEW T \in SUBSET Lines PROVE IsFiniteSet(T) /\ Cardinality(T) \in Nat
  BY <1>1, FS_Subset, FS_CardinalityType
<1> QED
  BY <1>1, <1>2

\* Days follow the clock, and a time of the same day is less than a day ago.
LEMMA DaysFollowTheClock ==
    /\ \A t \in Nat : Today(t) \in Nat
    /\ \A t, u \in Nat : Today(t) = Today(u) => u - t < DayLength
    /\ \A t, u \in Nat : t <= u => Today(t) <= Today(u)
<1>1. \A t \in Nat : /\ Today(t) \in Nat
                     /\ DayLength * Today(t) <= t /\ t < DayLength * Today(t) + DayLength
  BY LogLimits DEF Today
<1>2. ASSUME NEW t \in Nat, NEW u \in Nat, Today(t) = Today(u) PROVE u - t < DayLength
  <2>1. PICK n \in Nat : DayLength * Today(t) = n
    BY <1>1, LogLimits
  <2> QED
    BY <1>1, <1>2, <2>1, LogLimits
<1>3. ASSUME NEW t \in Nat, NEW u \in Nat, t <= u PROVE Today(t) <= Today(u)
  <2> SUFFICES ASSUME Today(t) > Today(u) PROVE FALSE
    BY <1>1
  <2> DEFINE a == Today(t)  b == Today(u)
  <2>1. a \in Nat /\ b \in Nat /\ a >= b + 1 /\ DayLength * a <= t /\ u < DayLength * b + DayLength
    BY <1>1
  <2> HIDE DEF a, b
  <2>2. DayLength * a >= DayLength * (b + 1)
    BY <2>1, LogLimits
  <2>3. DayLength * (b + 1) = DayLength * b + DayLength
    BY <2>1, LogLimits
  <2>4. DayLength * a \in Nat /\ DayLength * b \in Nat
    BY <2>1, LogLimits
  <2> QED
    BY <1>3, <2>1, <2>2, <2>3, <2>4, LogLimits
<1> QED
  BY <1>1, <1>2, <1>3

-----------------------------------------------------------------------------
(* The files.                                                              *)

\* No line is in two files, no file is empty, and a day has one base file, which was
\* written on that day.
FilesFit(files) ==
    /\ files \subseteq Files
    /\ \A f \in files : f.lines # {} /\ f.time <= clock
    /\ \A f, g \in files : f # g => f.lines \cap g.lines = {}
    /\ \A f, g \in files : f.stamp = -1 /\ g.stamp = -1 /\ f.day = g.day => f = g
    /\ \A f \in files : f.stamp = -1 => Today(f.time) = f.day
    /\ \A f \in files : \A x \in f.lines : written[x] >= 0 /\ written[x] <= f.time

\* The open file is the base file of its day, and its size is known.
HandleFits ==
    handle.handle =>
        \E f \in disk : IsActive(f, handle.day) /\ Cardinality(f.lines) <= size

LogTypes ==
    /\ thread \in [Threads -> Lines \cup {0}]
    /\ logged \in 0 .. MaxLines
    /\ queued \in Nat /\ processed \in Nat /\ dropped \in Nat /\ size \in Nat
    /\ channel \in Seq(Lines) /\ Len(channel) <= Capacity
    /\ worker \in {"recv", "check"}
    /\ buffer \in Seq(Lines) /\ Len(buffer) <= BatchSize
    /\ handle \in [day : -1 .. Today(MaxTime), handle : BOOLEAN]
    /\ lastWrite \in -1 .. MaxTime /\ clock \in 0 .. MaxTime
    /\ written \in [Lines -> -1 .. MaxTime]
    /\ swollen \in BOOLEAN /\ faults \in Nat

\* A worker with a line in hand has a batch, and one that waits has room in it.
BatchFits ==
    /\ worker = "check" => buffer # <<>>
    /\ worker = "recv" => Len(buffer) < BatchSize /\ (channel = <<>> => buffer = <<>>)

\* The name of an archive: some number is free, since every file has a line of its own.
LEMMA NumberIsFree ==
  ASSUME NEW files, files \subseteq Files, \A f \in files : f.lines # {},
         \A f, g \in files : f # g => f.lines \cap g.lines = {}, NEW at
  PROVE  /\ ArchiveNumber(files, at) \in 0 .. MaxLines
         /\ ~\E g \in files : g.day = Today(clock) /\ g.stamp = at
                                /\ g.seq = ArchiveNumber(files, at)
<1> DEFINE named == {g \in files : g.day = Today(clock) /\ g.stamp = at}
           taken == {f.seq : f \in named}
           free == (0 .. MaxLines) \ taken
<1>1. free # {}
  <2> SUFFICES ASSUME 0 .. MaxLines \subseteq taken PROVE FALSE
    OBVIOUS
  <2> DEFINE file == [n \in 0 .. MaxLines |-> CHOOSE f \in named : f.seq = n]
             line == [n \in 0 .. MaxLines |-> CHOOSE x \in file[n].lines : TRUE]
  <2>1. \A n \in 0 .. MaxLines : file[n] \in named /\ file[n].seq = n
    OBVIOUS
  <2>2. \A f \in files : f.lines \subseteq Lines
    BY DEF Files
  <2> HIDE DEF file
  <2>3. \A n \in 0 .. MaxLines : file[n] \in files /\ line[n] \in file[n].lines
    BY <2>1
  <2>4. \A n \in 0 .. MaxLines : line[n] \in Lines
    BY <2>2, <2>3
  <2> HIDE DEF line
  <2>5. \A m, n \in 0 .. MaxLines : line[m] = line[n] => m = n
    BY <2>1, <2>3
  <2>6. line \in [0 .. MaxLines -> Lines]
    BY <2>4 DEF line
  <2>7. IsFiniteSet(0 .. MaxLines) /\ Cardinality(0 .. MaxLines) = MaxLines + 1
    <3>1. /\ IsFiniteSet(0 .. MaxLines)
          /\ Cardinality(0 .. MaxLines) = IF 0 > MaxLines THEN 0 ELSE MaxLines - 0 + 1
      BY LogLimits, FS_Interval
    <3> QED
      BY <3>1, LogLimits
  <2>8. Cardinality(Lines) < Cardinality(0 .. MaxLines)
    BY <2>7, LinesAreFinite, LogLimits
  <2> QED
    BY <2>5, <2>6, <2>7, <2>8, LinesAreFinite, FS_PigeonHole
<1>2. IsFiniteSet(free) /\ \A x \in free : x \in Int
  <2>1. IsFiniteSet(0 .. MaxLines)
    BY LogLimits, FS_Interval
  <2>2. free \in SUBSET (0 .. MaxLines)
    OBVIOUS
  <2> HIDE DEF free
  <2>3. IsFiniteSet(free)
    BY <2>1, <2>2, FS_Subset
  <2>4. \A x \in free : x \in Int
    BY <2>2
  <2> QED
    BY <2>3, <2>4
<1>3. Min(free) \in free /\ \A x \in free : Min(free) <= x
  <2> HIDE DEF free
  <2> QED
    BY <1>1, <1>2, MinIsLeast
<1> DEFINE i == Min(free)
<1>4. i \in 0 .. MaxLines /\ i \notin taken /\ 0 .. i - 1 \subseteq taken
  <2>1. i \in 0 .. MaxLines /\ i \notin taken
    BY <1>3
  <2>2. \A x \in free : i <= x
    BY <1>3
  <2> HIDE DEF i
  <2>3. ASSUME NEW n \in 0 .. i - 1 PROVE n \in taken
    <3> HIDE DEF taken
    <3>1. n \in 0 .. MaxLines /\ ~(i <= n)
      BY <2>1, LogLimits
    <3> QED
      BY <2>2, <3>1
  <2> QED
    BY <2>1, <2>3
<1> HIDE DEF i
<1>5. /\ ArchiveNumber(files, at) \in 0 .. MaxLines
      /\ ArchiveNumber(files, at) \notin taken
  BY <1>4 DEF ArchiveNumber
<1> QED
  BY <1>5

EmptyFile == ActiveFile(Today(clock), {}, clock)
ActiveToday(f) == IsActive(f, Today(clock))

LEMMA EmptyFileFits ==
  ASSUME LogTypes
  PROVE  EmptyFile \in Files /\ ActiveToday(EmptyFile) /\ EmptyFile.lines = {}
<1>1. clock \in Nat /\ MaxTime \in Nat /\ clock <= MaxTime
  BY LogLimits DEF LogTypes
<1>2. Today(clock) \in 0 .. Today(MaxTime)
  BY <1>1, DaysFollowTheClock
<1> QED
  BY <1>1, <1>2, LogLimits DEF EmptyFile, ActiveFile, Files, ActiveToday, IsActive

\* What ensure_writer opens: the one base file of today, whose size it knows.  Only files
\* that have expired are removed, and no base file of today ever has.
LEMMA EnsuredFits ==
  ASSUME LogTypes, FilesFit(disk), HandleFits
  PROVE  /\ Ensured.size \in Nat /\ Ensured.last \in -1 .. MaxTime
         /\ Ensured.disk \subseteq disk \cup {EmptyFile}
         /\ Ensured.size > 0 => Ensured.disk \subseteq disk
         /\ \A f \in disk : f \notin Ensured.disk => Expired(f)
         /\ \A f, g \in Ensured.disk : ActiveToday(f) /\ ActiveToday(g) => f = g
         /\ \A f \in Ensured.disk : ActiveToday(f) => Cardinality(f.lines) <= Ensured.size
<1> DEFINE base == {f \in disk : IsActive(f, Today(clock))}
           made == IF base = {} THEN disk \cup {EmptyFile} ELSE disk
           open == handle = [day |-> Today(clock), handle |-> TRUE]
<1>1. \A f, g \in base : f = g
  BY DEF FilesFit, IsActive
<1>2. \A f \in disk : f.lines \in SUBSET Lines /\ Cardinality(f.lines) \in Nat
  <2>1. \A f \in disk : f.lines \in SUBSET Lines
    BY DEF FilesFit, Files
  <2> QED
    BY <2>1, LinesAreFinite
<1>3. CASE open
  <2>1. Ensured = [disk |-> disk, size |-> size, last |-> lastWrite]
    BY <1>3 DEF Ensured
  <2>2. PICK f \in disk : IsActive(f, Today(clock)) /\ Cardinality(f.lines) <= size
    BY <1>3 DEF HandleFits
  <2>3. \A g \in disk : ActiveToday(g) => g = f
    BY <1>1, <2>2 DEF ActiveToday
  <2> QED
    BY <2>1, <2>2, <2>3 DEF LogTypes
<1>4. CASE ~open
  <2> DEFINE n == Cardinality(UNION {f.lines : f \in base})
  <2>1. Ensured = [disk |-> {f \in made : ~Expired(f)}, size |-> n, last |-> -1]
    BY <1>4 DEF Ensured, EmptyFile
  <2>2. -1 \in -1 .. MaxTime
    BY LogLimits
  <2>3. CASE base = {}
    <3>1. made = disk \cup {EmptyFile}
      BY <2>3
    <3>2. n = 0
      <4>1. UNION {f.lines : f \in base} = {}
        BY <2>3
      <4> QED
        BY <4>1, FS_EmptySet
    <3>3. \A f \in made : ActiveToday(f) => f = EmptyFile
      BY <2>3, <3>1 DEF ActiveToday
    <3>4. Cardinality(EmptyFile.lines) = 0
      BY EmptyFileFits, FS_EmptySet
    <3> HIDE DEF made, n, base
    <3> QED
      BY <2>1, <2>2, <3>1, <3>2, <3>3, <3>4
  <2>4. CASE base # {}
    <3>1. made = disk
      BY <2>4
    <3>2. PICK b \in base : base = {b}
      BY <1>1, <2>4
    <3>3. n = Cardinality(b.lines) /\ b \in disk
      <4>1. UNION {f.lines : f \in base} = b.lines
        BY <3>2
      <4> QED
        BY <4>1
    <3>4. \A f \in made : ActiveToday(f) => f = b
      BY <3>1, <3>2 DEF ActiveToday
    <3>5. n \in Nat
      BY <1>2, <3>3
    <3> HIDE DEF made, n, base
    <3> QED
      BY <2>1, <2>2, <3>1, <3>3, <3>4, <3>5
  <2> QED
    BY <2>3, <2>4
<1> QED
  BY <1>3, <1>4

\* The rename gives the base file of today a free name, and so replaces no archive.
LEMMA RenamedFits ==
  ASSUME LogTypes, FilesFit(disk), HandleFits, IsFull(Ensured)
  PROVE  /\ Renamed(Ensured) \subseteq Files
         /\ \A g \in Renamed(Ensured) : ~ActiveToday(g) /\
                \E f \in disk : /\ g.lines = f.lines /\ g.time = f.time /\ g.day = f.day
                                /\ g.stamp = -1 => g = f
         /\ \A g, h \in Renamed(Ensured) : g # h => g.lines \cap h.lines = {}
         /\ \A f \in disk : Expired(f) \/ \E g \in Renamed(Ensured) : g.lines = f.lines
<1> DEFINE D == Ensured.disk
           at == IF Ensured.last = -1 THEN clock ELSE Ensured.last
           i  == ArchiveNumber(D, at)
           Kept == {g \in D : ~(g.day = Today(clock) /\ g.stamp = at /\ g.seq = i)}
           Name(f) == IF IsActive(f, Today(clock)) THEN [f EXCEPT !.stamp = at, !.seq = i] ELSE f
<1>1. D \subseteq disk
  BY EnsuredFits DEF IsFull
<1>2. D \subseteq Files /\ (\A f \in D : f.lines # {})
      /\ \A f, g \in D : f # g => f.lines \cap g.lines = {}
  BY <1>1 DEF FilesFit
<1>3. at \in 0 .. MaxTime
  <2>1. Ensured.last \in -1 .. MaxTime
    BY EnsuredFits
  <2> HIDE DEF D
  <2> QED
    BY <2>1, LogLimits DEF LogTypes
<1>4. i \in 0 .. MaxLines /\ Kept = D
  <2> HIDE DEF D, at
  <2>1. i \in 0 .. MaxLines
        /\ ~\E g \in D : g.day = Today(clock) /\ g.stamp = at /\ g.seq = i
    BY <1>2, NumberIsFree
  <2> HIDE DEF i
  <2> QED
    BY <2>1
<1>5. Renamed(Ensured) = {Name(f) : f \in Kept}
  BY DEF Renamed
<1>6. Renamed(Ensured) = {Name(f) : f \in D}
  BY <1>4, <1>5
<1> HIDE DEF D, at, i, Kept
<1>7. ASSUME NEW f \in D
      PROVE  /\ Name(f) \in Files /\ ~ActiveToday(Name(f))
             /\ Name(f).lines = f.lines /\ Name(f).time = f.time /\ Name(f).day = f.day
             /\ Name(f).stamp = -1 => Name(f) = f
  <2>1. f \in Files
    BY <1>2
  <2>2. CASE IsActive(f, Today(clock))
    <3>1. Name(f) = [f EXCEPT !.stamp = at, !.seq = i]
      BY <2>2
    <3>2. PICK r : r = [f EXCEPT !.stamp = at, !.seq = i]
      OBVIOUS
    <3>3. r \in Files
      <4>1. at \in -1 .. MaxTime
        BY <1>3, LogLimits
      <4> QED
        BY <1>4, <2>1, <3>2, <4>1 DEF Files
    <3>4. r.lines = f.lines /\ r.time = f.time /\ r.day = f.day /\ r.stamp = at
      BY <2>1, <3>2 DEF Files
    <3>5. at # -1
      BY <1>3, LogLimits
    <3> QED
      BY <3>1, <3>2, <3>3, <3>4, <3>5 DEF ActiveToday, IsActive
  <2>3. CASE ~IsActive(f, Today(clock))
    BY <2>1, <2>3 DEF ActiveToday
  <2> QED
    BY <2>2, <2>3
<1> HIDE DEF Name
<1>8. \A g \in Renamed(Ensured) : \E f \in D : g = Name(f)
  BY <1>6
<1>9. ASSUME NEW g \in Renamed(Ensured), NEW h \in Renamed(Ensured), g # h
      PROVE  g.lines \cap h.lines = {}
  <2>1. PICK f \in D : g = Name(f)
    BY <1>8
  <2>2. PICK k \in D : h = Name(k)
    BY <1>8
  <2>3. f # k
    BY <1>9, <2>1, <2>2
  <2> QED
    BY <1>2, <1>7, <2>1, <2>2, <2>3
<1>10. ASSUME NEW f \in disk, ~Expired(f)
       PROVE  \E g \in Renamed(Ensured) : g.lines = f.lines
  <2>1. f \in D
    BY <1>10, EnsuredFits DEF D
  <2> QED
    BY <1>6, <1>7, <2>1
<1>11. \A g \in Renamed(Ensured) : g \in Files /\ ~ActiveToday(g) /\
                \E f \in disk : /\ g.lines = f.lines /\ g.time = f.time /\ g.day = f.day
                                /\ g.stamp = -1 => g = f
  BY <1>1, <1>7, <1>8
<1> QED
  BY <1>9, <1>10, <1>11

-----------------------------------------------------------------------------
(* The lines on their way to a file.                                       *)

InHand == {thread[p] : p \in Threads} \ {0}
UnderWay == InHand \cup ToSet(channel) \cup ToSet(buffer)

\* A line is in one place at a time.
OnePlace ==
    /\ \A p, r \in Threads : thread[p] = thread[r] => thread[p] = 0 \/ p = r
    /\ \A i, j \in 1 .. Len(channel) : channel[i] = channel[j] => i = j
    /\ \A p \in Threads : thread[p] \notin ToSet(channel) \cup ToSet(buffer)
    /\ ToSet(channel) \cap ToSet(buffer) = {}
    /\ \A f \in disk : f.lines \cap UnderWay = {}
    /\ \A x \in UnderWay : x <= logged
    /\ \A f \in disk : \A x \in f.lines : x <= logged

InFile(x) == \E f \in disk : x \in f.lines
OutOfAge(x) == written[x] >= 0 /\ written[x] <= clock - MaxAge

Accounted ==
    \A x \in 1 .. logged : x \in lost \/ x \in UnderWay \/ InFile(x) \/ OutOfAge(x)

LogInvariant ==
    /\ LogTypes /\ FilesFit(disk) /\ HandleFits /\ BatchFits
    /\ OnePlace /\ Accounted /\ CountersMatchChannel /\ FilesRespectLimit

LEMMA WaitingThreads ==
  LET W == {p \in Threads : thread[p] # 0} IN IsFiniteSet(W) /\ Cardinality(W) \in Nat
<1> DEFINE W == {p \in Threads : thread[p] # 0}
<1>1. IsFiniteSet(W)
  BY LogLimits, FS_Subset
<1>2. Cardinality(W) \in Nat
  BY <1>1, FS_CardinalityType
<1> QED
  BY <1>1, <1>2

\* The members of a list of lines.
LEMMA MembersOf ==
  ASSUME NEW s \in Seq(Lines)
  PROVE  /\ ToSet(s) = {s[i] : i \in 1 .. Len(s)} /\ ToSet(s) \subseteq Lines
         /\ s = <<>> <=> ToSet(s) = {}
         /\ Cardinality(ToSet(s)) <= Len(s)
<1>1. ToSet(s) = {s[i] : i \in 1 .. Len(s)}
  BY DEF ToSet
<1>2. ToSet(s) \subseteq Lines
  BY <1>1
<1>3. s = <<>> <=> ToSet(s) = {}
  <2>1. s = <<>> <=> Len(s) = 0
    OBVIOUS
  <2>2. Len(s) \in Nat /\ (Len(s) > 0 => 1 \in 1 .. Len(s))
    OBVIOUS
  <2> QED
    BY <1>1, <2>1, <2>2
<1>4. Cardinality(ToSet(s)) <= Len(s)
  <2> DEFINE f == [i \in 1 .. Len(s) |-> s[i]]
  <2>1. f \in Surjection(1 .. Len(s), ToSet(s))
    BY <1>1 DEF Surjection
  <2>2. IsFiniteSet(1 .. Len(s)) /\ Cardinality(1 .. Len(s)) = IF 1 > Len(s) THEN 0 ELSE Len(s) - 1 + 1
    BY FS_Interval
  <2>3. Cardinality(ToSet(s)) <= Cardinality(1 .. Len(s))
    BY <2>1, <2>2, FS_Surjection
  <2>4. Cardinality(ToSet(s)) \in Nat
    BY <1>2, LinesAreFinite
  <2> QED
    BY <2>2, <2>3, <2>4
<1> QED
  BY <1>1, <1>2, <1>3, <1>4

LEMMA MembersOfAppend ==
  ASSUME NEW s \in Seq(Lines), NEW x \in Lines
  PROVE  ToSet(Append(s, x)) = ToSet(s) \cup {x} /\ Append(s, x) \in Seq(Lines)
<1>1. Append(s, x) \in Seq(Lines) /\ Len(Append(s, x)) = Len(s) + 1
      /\ \A i \in 1 .. Len(s) + 1 : Append(s, x)[i] = IF i = Len(s) + 1 THEN x ELSE s[i]
  OBVIOUS
<1>2. ToSet(Append(s, x)) = {Append(s, x)[i] : i \in 1 .. Len(s) + 1}
      /\ ToSet(s) = {s[i] : i \in 1 .. Len(s)}
  BY <1>1, MembersOf
<1>3. 1 .. Len(s) + 1 = (1 .. Len(s)) \cup {Len(s) + 1} /\ Len(s) + 1 \notin 1 .. Len(s)
  OBVIOUS
<1> QED
  BY <1>1, <1>2, <1>3

LEMMA MembersOfTail ==
  ASSUME NEW s \in Seq(Lines), s # <<>>, \A i, j \in 1 .. Len(s) : s[i] = s[j] => i = j
  PROVE  /\ Head(s) \in Lines /\ Tail(s) \in Seq(Lines) /\ Len(Tail(s)) = Len(s) - 1
         /\ ToSet(s) = {Head(s)} \cup ToSet(Tail(s)) /\ Head(s) \notin ToSet(Tail(s))
         /\ \A i, j \in 1 .. Len(Tail(s)) : Tail(s)[i] = Tail(s)[j] => i = j
<1>1. /\ Len(s) \in Nat /\ Len(s) > 0 /\ Head(s) = s[1] /\ Tail(s) \in Seq(Lines)
      /\ Len(Tail(s)) = Len(s) - 1 /\ \A i \in 1 .. Len(s) - 1 : Tail(s)[i] = s[i + 1]
  OBVIOUS
<1> DEFINE t == Tail(s)
<1> HIDE DEF t
<1>2. /\ ToSet(t) = {t[i] : i \in 1 .. Len(s) - 1}
      /\ ToSet(s) = {s[i] : i \in 1 .. Len(s)}
  BY <1>1, MembersOf DEF t
<1>3. \A i \in 1 .. Len(s) - 1 : t[i] = s[i + 1] /\ i + 1 \in 1 .. Len(s) /\ i + 1 # 1
  BY <1>1 DEF t
<1>4. \A i \in 1 .. Len(s) : i = 1 \/ (i - 1 \in 1 .. Len(s) - 1 /\ s[i] = t[i - 1])
  BY <1>1 DEF t
<1>5. s[1] \notin ToSet(t)
  BY <1>1, <1>2, <1>3
<1>6. ToSet(s) = {s[1]} \cup ToSet(t)
  <2>1. ToSet(s) \subseteq {s[1]} \cup ToSet(t)
    BY <1>2, <1>4
  <2>2. {s[1]} \cup ToSet(t) \subseteq ToSet(s)
    BY <1>1, <1>2, <1>3
  <2> QED
    BY <2>1, <2>2
<1>7. \A i, j \in 1 .. Len(s) - 1 : t[i] = t[j] => i = j
  BY <1>1, <1>3
<1> QED
  BY <1>1, <1>5, <1>6, <1>7 DEF t

LEMMA UnderWayIsLogged ==
  ASSUME LogTypes
  PROVE  UnderWay \subseteq Lines /\ 0 \notin Lines /\ InHand \subseteq Lines
<1>1. ToSet(channel) \subseteq Lines /\ ToSet(buffer) \subseteq Lines
  BY MembersOf DEF LogTypes
<1>2. InHand \subseteq Lines
  BY DEF InHand, LogTypes
<1>3. 0 \notin Lines
  BY LogLimits DEF Lines
<1> QED
  BY <1>1, <1>2, <1>3 DEF UnderWay

LEMMA LogStarts == LWInit => LogInvariant
<1> SUFFICES ASSUME LWInit PROVE LogInvariant
  OBVIOUS
<1>1. LogTypes
  <2>1. handle \in [day : -1 .. Today(MaxTime), handle : BOOLEAN]
    <3>1. -1 \in -1 .. Today(MaxTime)
      BY LogLimits, DaysFollowTheClock
    <3> QED
      BY <3>1 DEF LWInit, NotOpen
  <2>2. written \in [Lines -> -1 .. MaxTime] /\ lastWrite \in -1 .. MaxTime /\ clock \in 0 .. MaxTime
        /\ logged \in 0 .. MaxLines
    BY LogLimits DEF LWInit
  <2>3. channel \in Seq(Lines) /\ Len(channel) = 0 /\ buffer \in Seq(Lines) /\ Len(buffer) = 0
    BY DEF LWInit
  <2>4. thread \in [Threads -> Lines \cup {0}]
    BY DEF LWInit
  <2>5. /\ queued \in Nat /\ processed \in Nat /\ dropped \in Nat /\ size \in Nat
        /\ worker \in {"recv", "check"} /\ swollen \in BOOLEAN /\ faults \in Nat
    BY DEF LWInit
  <2> QED
    BY <2>1, <2>2, <2>3, <2>4, <2>5, LogLimits DEF LogTypes
<1>2. FilesFit(disk) /\ HandleFits
  BY DEF LWInit, FilesFit, HandleFits, NotOpen
<1>3. BatchFits
  BY LogLimits DEF LWInit, BatchFits
<1>4. ToSet(channel) = {} /\ ToSet(buffer) = {} /\ InHand = {} /\ UnderWay = {}
  <2>1. channel \in Seq(Lines) /\ buffer \in Seq(Lines) /\ channel = <<>> /\ buffer = <<>>
    BY DEF LWInit
  <2>2. ToSet(channel) = {} /\ ToSet(buffer) = {}
    BY <2>1, MembersOf
  <2>3. InHand = {}
    BY DEF InHand, LWInit
  <2> QED
    BY <2>2, <2>3 DEF UnderWay
<1>5. OnePlace /\ Accounted
  <2>1. 1 .. logged = {} /\ 1 .. Len(channel) = {}
    BY DEF LWInit
  <2> QED
    BY <1>4, <2>1 DEF LWInit, OnePlace, Accounted
<1>6. CountersMatchChannel
  <2>1. {p \in Threads : thread[p] # 0} = {}
    BY DEF LWInit
  <2>2. Cardinality({p \in Threads : thread[p] # 0}) = 0
    BY <2>1, FS_EmptySet, Zenon
  <2>3. queued = 0 /\ Len(channel) = 0
    BY DEF LWInit
  <2>4. queued = Len(channel) + Cardinality({p \in Threads : thread[p] # 0})
    BY <2>2, <2>3
  <2> QED
    BY <2>4 DEF CountersMatchChannel
<1>7. FilesRespectLimit
  BY DEF LWInit, FilesRespectLimit
<1> QED
  BY <1>1, <1>2, <1>3, <1>5, <1>6, <1>7 DEF LogInvariant

\* A thread counts a line: it is new, so it is nowhere else.
LEMMA LineIsCounted ==
  ASSUME LogInvariant, NEW p \in Threads, CountLine(p)
  PROVE  LogInvariant'
<1> USE DEF LogInvariant
<1>1. /\ thread[p] = 0 /\ logged < MaxLines /\ logged' = logged + 1 /\ queued' = queued + 1
      /\ thread' = [thread EXCEPT ![p] = logged + 1]
      /\ UNCHANGED <<channel, processed, dropped, worker, buffer, disk, handle, size, lastWrite,
                     written, swollen, clock, lost, faults>>
  BY DEF CountLine, fileVars
<1>2. logged \in Nat /\ logged' \in 1 .. MaxLines /\ logged + 1 \in Lines
  BY <1>1, LogLimits DEF LogTypes, Lines
<1>3. LogTypes'
  BY <1>1, <1>2, LogLimits DEF LogTypes
<1>4. FilesFit(disk)' /\ HandleFits' /\ BatchFits' /\ FilesRespectLimit'
  BY <1>1 DEF FilesFit, HandleFits, BatchFits, FilesRespectLimit, IsActive
<1>5. thread'[p] = logged + 1 /\ \A r \in Threads \ {p} : thread'[r] = thread[r]
  BY <1>1 DEF LogTypes
<1>6. InHand' = InHand \cup {logged + 1} /\ UnderWay' = UnderWay \cup {logged + 1}
  <2>1. logged + 1 # 0
    BY <1>2
  <2>2. InHand' = InHand \cup {logged + 1}
    BY <1>1, <1>5, <2>1 DEF InHand
  <2> QED
    BY <1>1, <2>2 DEF UnderWay
<1>7. \A x \in UnderWay : x <= logged /\ x \in Int
  BY UnderWayIsLogged, LogLimits DEF OnePlace, Lines
<1>8. logged + 1 \notin UnderWay /\ \A f \in disk : logged + 1 \notin f.lines
  <2>1. logged + 1 \notin UnderWay
    BY <1>2, <1>7
  <2>2. \A f \in disk : logged + 1 \notin f.lines
    BY <1>2 DEF OnePlace
  <2> QED
    BY <2>1, <2>2
<1>9. \A r \in Threads : thread[r] # logged + 1
  BY <1>2, <1>8 DEF UnderWay, InHand
<1>10. OnePlace'
  <2>1. \A r, q \in Threads : thread'[r] = thread'[q] => thread'[r] = 0 \/ r = q
    BY <1>5, <1>9 DEF OnePlace
  <2>2. \A r \in Threads : thread'[r] \notin ToSet(channel) \cup ToSet(buffer)
    BY <1>5, <1>8 DEF OnePlace, UnderWay
  <2>3. \A f \in disk : f.lines \cap UnderWay' = {}
    BY <1>6, <1>8 DEF OnePlace
  <2>4. \A x \in UnderWay' : x <= logged'
    BY <1>1, <1>2, <1>6, <1>7
  <2>5. \A f \in disk : \A x \in f.lines : x <= logged'
    <3> SUFFICES ASSUME NEW f \in disk, NEW x \in f.lines PROVE x <= logged'
      OBVIOUS
    <3>1. x <= logged /\ x \in Int
      BY LogLimits DEF OnePlace, FilesFit, Files, Lines
    <3> QED
      BY <1>1, <1>2, <3>1
  <2> QED
    BY <1>1, <2>1, <2>2, <2>3, <2>4, <2>5 DEF OnePlace
<1>11. Accounted'
  <2> SUFFICES ASSUME NEW x \in 1 .. logged'
               PROVE  (x \in lost \/ x \in UnderWay \/ InFile(x) \/ OutOfAge(x))'
    BY DEF Accounted
  <2>1. CASE x = logged + 1
    BY <1>6, <2>1
  <2>2. CASE x # logged + 1
    <3>1. x \in 1 .. logged
      BY <1>1, <1>2, <2>2
    <3>2. x \in lost \/ x \in UnderWay \/ InFile(x) \/ OutOfAge(x)
      BY <3>1 DEF Accounted
    <3> QED
      BY <1>1, <1>6, <3>2 DEF InFile, OutOfAge
  <2> QED
    BY <2>1, <2>2
<1>12. CountersMatchChannel'
  <2> DEFINE W == {r \in Threads : thread[r] # 0}
             V == {r \in Threads : thread'[r] # 0}
  <2>1. V = W \cup {p} /\ p \notin W
    BY <1>1, <1>2, <1>5
  <2>2. IsFiniteSet(W) /\ Cardinality(W) \in Nat
    BY WaitingThreads
  <2>3. Cardinality(V) = Cardinality(W) + 1
    BY <2>1, <2>2, FS_AddElement
  <2>4. queued = Len(channel) + Cardinality(W)
    BY DEF CountersMatchChannel
  <2> HIDE DEF W, V
  <2>5. queued' = Len(channel') + Cardinality(V)
    <3>1. Len(channel) \in Nat
      BY DEF LogTypes
    <3> QED
      BY <1>1, <2>2, <2>3, <2>4, <3>1
  <2> QED
    BY <2>5 DEF CountersMatchChannel, V
<1> QED
  BY <1>3, <1>4, <1>10, <1>11, <1>12

\* It sends the line into the channel, or drops it.
LEMMA LineIsSent ==
  ASSUME LogInvariant, NEW p \in Threads, SendLine(p)
  PROVE  LogInvariant'
<1> USE DEF LogInvariant
<1> DEFINE x == thread[p]
<1>1. /\ x # 0 /\ thread' = [thread EXCEPT ![p] = 0]
      /\ UNCHANGED <<logged, processed, worker, buffer, disk, handle, size, lastWrite, written,
                     swollen, clock, faults>>
      /\ \/ /\ Len(channel) < Capacity /\ channel' = Append(channel, x)
            /\ UNCHANGED <<queued, dropped, lost>>
         \/ /\ queued' = queued - 1 /\ dropped' = dropped + 1 /\ lost' = lost \cup {x}
            /\ channel' = channel
  BY DEF SendLine, fileVars
<1>2. x \in Lines /\ x \in InHand
  BY <1>1 DEF LogTypes, InHand
<1>3. thread'[p] = 0 /\ \A r \in Threads \ {p} : thread'[r] = thread[r]
  BY <1>1 DEF LogTypes
<1> HIDE DEF x
<1>4. InHand = InHand' \cup {x} /\ x \notin InHand'
  <2>1. \A r \in Threads : thread[r] = x => r = p
    BY <1>1 DEF OnePlace, x
  <2>2. x \notin InHand'
    BY <1>1, <1>3, <2>1 DEF InHand
  <2>3. InHand' \subseteq InHand
    BY <1>3 DEF InHand
  <2>4. InHand \subseteq InHand' \cup {x}
    BY <1>1, <1>3 DEF InHand, x
  <2> QED
    BY <1>2, <2>2, <2>3, <2>4
<1>5. x \notin ToSet(channel) \cup ToSet(buffer)
  BY DEF OnePlace, x
<1>6. channel \in Seq(Lines) /\ buffer \in Seq(Lines) /\ Len(channel) \in Nat
  BY DEF LogTypes
<1>7. /\ channel' \in Seq(Lines) /\ ToSet(channel') \subseteq ToSet(channel) \cup {x}
      /\ UnderWay \subseteq UnderWay' \cup lost' /\ UnderWay' \subseteq UnderWay
      /\ lost \subseteq lost'
      /\ \A i, j \in 1 .. Len(channel') : channel'[i] = channel'[j] => i = j
      /\ channel = <<>> \/ channel' # <<>>
      /\ Len(channel') <= Capacity
  <2>1. CASE Len(channel) < Capacity /\ channel' = Append(channel, x)
             /\ UNCHANGED <<queued, dropped, lost>>
    <3>1. ToSet(channel') = ToSet(channel) \cup {x} /\ channel' \in Seq(Lines)
      BY <1>2, <1>6, <2>1, MembersOfAppend
    <3>2. /\ Len(channel') = Len(channel) + 1 /\ channel' # <<>>
          /\ \A i \in 1 .. Len(channel) + 1 :
                channel'[i] = IF i = Len(channel) + 1 THEN x ELSE channel[i]
      BY <1>2, <1>6, <2>1
    <3>3. \A i \in 1 .. Len(channel) : channel[i] # x
      BY <1>5, <1>6, MembersOf
    <3>4. ASSUME NEW i \in 1 .. Len(channel'), NEW j \in 1 .. Len(channel'), channel'[i] = channel'[j]
          PROVE  i = j
      <4>1. \A k \in 1 .. Len(channel') : k = Len(channel) + 1 \/ k \in 1 .. Len(channel)
        BY <1>6, <3>2
      <4> QED
        BY <3>2, <3>3, <3>4, <4>1 DEF OnePlace
    <3>5. UnderWay' = UnderWay
      BY <1>1, <1>4, <3>1 DEF UnderWay
    <3>6. Len(channel') <= Capacity
      BY <1>6, <2>1, <3>2, LogLimits
    <3> QED
      BY <2>1, <3>1, <3>2, <3>4, <3>5, <3>6
  <2>2. CASE lost' = lost \cup {x} /\ channel' = channel
    <3>1. UnderWay = UnderWay' \cup {x}
      BY <1>1, <1>4, <2>2 DEF UnderWay
    <3>2. Len(channel') <= Capacity
      BY <2>2 DEF LogTypes
    <3> QED
      BY <1>6, <2>2, <3>1, <3>2 DEF OnePlace
  <2> QED
    BY <1>1, <2>1, <2>2
<1>8. CountersMatchChannel' /\ queued' \in Nat /\ dropped' \in Nat
  <2> DEFINE W == {r \in Threads : thread[r] # 0}
             V == {r \in Threads : thread'[r] # 0}
  <2>1. V = W \ {p} /\ p \in W
    BY <1>1, <1>3 DEF x
  <2>2. IsFiniteSet(W) /\ Cardinality(W) \in Nat
    BY WaitingThreads
  <2>3. IsFiniteSet(V) /\ Cardinality(V) = Cardinality(W) - 1
    BY <2>1, <2>2, FS_RemoveElement
  <2>4. Cardinality(V) \in Nat
    BY <2>3, FS_CardinalityType
  <2>5. queued = Len(channel) + Cardinality(W)
    BY DEF CountersMatchChannel
  <2> HIDE DEF W, V
  <2>6. CASE channel' = Append(channel, x) /\ UNCHANGED <<queued, dropped, lost>>
    <3>1. Len(channel') = Len(channel) + 1
      BY <1>2, <1>6, <2>6
    <3>2. queued' = Len(channel') + Cardinality(V)
      BY <1>6, <2>2, <2>3, <2>5, <2>6, <3>1
    <3> QED
      BY <2>6, <3>2 DEF CountersMatchChannel, V, LogTypes
  <2>7. CASE queued' = queued - 1 /\ dropped' = dropped + 1 /\ channel' = channel
    <3>1. queued' = Len(channel') + Cardinality(V)
      BY <1>6, <2>2, <2>3, <2>5, <2>7
    <3>2. queued' \in Nat
      BY <1>6, <2>4, <2>7, <3>1
    <3> QED
      BY <2>7, <3>1, <3>2 DEF CountersMatchChannel, V, LogTypes
  <2> QED
    BY <1>1, <2>6, <2>7
<1>9. LogTypes'
  BY <1>1, <1>7, <1>8 DEF LogTypes
<1>10. FilesFit(disk)' /\ HandleFits' /\ BatchFits' /\ FilesRespectLimit'
  <2>1. BatchFits'
    BY <1>1, <1>7 DEF BatchFits
  <2> QED
    BY <1>1, <2>1 DEF FilesFit, HandleFits, FilesRespectLimit, IsActive
<1>11. OnePlace'
  <2>1. \A r, q \in Threads : thread'[r] = thread'[q] => thread'[r] = 0 \/ r = q
    BY <1>3 DEF OnePlace
  <2>2. \A r \in Threads : thread'[r] \notin ToSet(channel') \cup ToSet(buffer)
    <3> SUFFICES ASSUME NEW r \in Threads PROVE thread'[r] \notin ToSet(channel') \cup ToSet(buffer)
      OBVIOUS
    <3>1. CASE thread'[r] = 0
      <4>1. ToSet(channel') \subseteq Lines /\ ToSet(buffer) \subseteq Lines
        BY <1>6, <1>7, MembersOf
      <4> QED
        BY <3>1, <4>1, UnderWayIsLogged
    <3>2. CASE thread'[r] # 0
      <4>1. thread'[r] \in InHand' /\ thread'[r] = thread[r]
        BY <1>3, <3>2 DEF InHand
      <4> QED
        BY <1>4, <1>7, <4>1 DEF OnePlace
    <3> QED
      BY <3>1, <3>2
  <2>3. ToSet(channel') \cap ToSet(buffer) = {}
    BY <1>5, <1>7 DEF OnePlace
  <2> QED
    BY <1>1, <1>7, <2>1, <2>2, <2>3 DEF OnePlace
<1>12. Accounted'
  <2> SUFFICES ASSUME NEW y \in 1 .. logged
               PROVE  (y \in lost \/ y \in UnderWay \/ InFile(y) \/ OutOfAge(y))'
    BY <1>1 DEF Accounted
  <2>1. y \in lost \/ y \in UnderWay \/ InFile(y) \/ OutOfAge(y)
    BY DEF Accounted
  <2> QED
    BY <1>1, <1>7, <2>1 DEF InFile, OutOfAge
<1> QED
  BY <1>8, <1>9, <1>10, <1>11, <1>12

\* The worker moves the first line of the channel into its batch.
LEMMA LineIsTaken ==
  ASSUME LogInvariant, TakeLine
  PROVE  LogInvariant'
<1> USE DEF LogInvariant
<1> DEFINE x == Head(channel)
<1>1. /\ worker = "recv" /\ channel # <<>> /\ buffer' = Append(buffer, x) /\ channel' = Tail(channel)
      /\ queued' = IF queued = 0 THEN 0 ELSE queued - 1
      /\ processed' = processed + 1 /\ worker' = "check"
      /\ UNCHANGED <<thread, logged, dropped, disk, handle, size, lastWrite, written, swollen,
                     clock, lost, faults>>
  BY DEF TakeLine, fileVars
<1>2. channel \in Seq(Lines) /\ buffer \in Seq(Lines) /\ Len(channel) \in Nat /\ Len(buffer) \in Nat
  BY DEF LogTypes
<1>3. /\ x \in Lines /\ channel' \in Seq(Lines) /\ Len(channel') = Len(channel) - 1
      /\ ToSet(channel) = {x} \cup ToSet(channel') /\ x \notin ToSet(channel')
      /\ \A i, j \in 1 .. Len(channel') : channel'[i] = channel'[j] => i = j
  BY <1>1, <1>2, MembersOfTail DEF OnePlace
<1>4. /\ ToSet(buffer') = ToSet(buffer) \cup {x} /\ buffer' \in Seq(Lines)
  BY <1>1, <1>2, <1>3, MembersOfAppend
<1>5. Len(buffer') = Len(buffer) + 1 /\ buffer' # <<>>
  BY <1>1, <1>2
<1> HIDE DEF x
<1>6. InHand' = InHand /\ UnderWay' = UnderWay
  BY <1>1, <1>3, <1>4 DEF InHand, UnderWay
<1>7. queued' = Len(channel') + Cardinality({p \in Threads : thread[p] # 0}) /\ queued' \in Nat
  <2> DEFINE n == Cardinality({p \in Threads : thread[p] # 0})
  <2>1. n \in Nat
    BY WaitingThreads
  <2>2. queued = Len(channel) + n
    BY DEF CountersMatchChannel
  <2> HIDE DEF n
  <2>3. Len(channel') \in Nat
    BY <1>3
  <2>4. queued' = Len(channel') + n /\ queued' \in Nat
    BY <1>1, <1>2, <1>3, <2>1, <2>2, <2>3
  <2> QED
    BY <2>4 DEF n
<1>8. CountersMatchChannel'
  <2>1. thread' = thread
    BY <1>1
  <2> QED
    BY <1>7, <2>1 DEF CountersMatchChannel
<1>9. Len(buffer') <= BatchSize /\ Len(channel') <= Capacity
  <2>1. Len(buffer) < BatchSize /\ Len(channel) <= Capacity
    BY <1>1 DEF BatchFits, LogTypes
  <2> QED
    BY <1>2, <1>3, <1>5, <2>1, LogLimits
<1>10. LogTypes'
  BY <1>1, <1>3, <1>4, <1>7, <1>9 DEF LogTypes
<1>11. FilesFit(disk)' /\ HandleFits' /\ BatchFits' /\ FilesRespectLimit'
  <2>1. BatchFits'
    BY <1>1, <1>5 DEF BatchFits
  <2> QED
    BY <1>1, <2>1 DEF FilesFit, HandleFits, FilesRespectLimit, IsActive
<1>12. OnePlace'
  BY <1>1, <1>3, <1>4, <1>6 DEF OnePlace
<1>13. Accounted'
  BY <1>1, <1>6 DEF Accounted, InFile, OutOfAge
<1> QED
  BY <1>8, <1>10, <1>11, <1>12, <1>13

LEMMA LogCollects ==
  ASSUME LogInvariant, Collect
  PROVE  LogInvariant'
<1> USE DEF LogInvariant
<1>1. /\ channel # <<>> /\ Len(buffer) < BatchSize /\ worker' = "recv"
      /\ UNCHANGED <<thread, logged, channel, queued, processed, dropped, buffer, disk, handle,
                     size, lastWrite, written, swollen, clock, lost, faults>>
  BY DEF Collect, WaitsForMore, fileVars
<1>2. LogTypes' /\ BatchFits'
  BY <1>1 DEF LogTypes, BatchFits
<1>3. UnderWay' = UnderWay
  BY <1>1 DEF UnderWay, InHand
<1>4. CountersMatchChannel' /\ FilesRespectLimit'
  BY <1>1 DEF CountersMatchChannel, FilesRespectLimit
<1>5. FilesFit(disk)' /\ HandleFits'
  BY <1>1 DEF FilesFit, HandleFits, IsActive
<1>6. OnePlace' /\ Accounted'
  BY <1>1, <1>3 DEF OnePlace, Accounted, InFile, OutOfAge
<1> QED
  BY <1>2, <1>4, <1>5, <1>6

\* A restart loses what was on its way and forgets the open file.
LEMMA LogRestarts ==
  ASSUME LogInvariant, RestartLog
  PROVE  LogInvariant'
<1> USE DEF LogInvariant
<1>1. /\ lost' = lost \cup UnderWay
      /\ thread' = [p \in Threads |-> 0]
      /\ channel' = <<>> /\ buffer' = <<>> /\ worker' = "recv"
      /\ queued' = 0 /\ processed' = 0 /\ dropped' = 0 /\ faults' = faults + 1
      /\ handle' = NotOpen /\ size' = 0 /\ lastWrite' = -1
      /\ UNCHANGED <<logged, disk, clock, written, swollen>>
  BY DEF RestartLog, UnderWay, InHand
<1>2. channel' \in Seq(Lines) /\ buffer' \in Seq(Lines) /\ Len(channel') = 0 /\ Len(buffer') = 0
  BY <1>1
<1>3. ToSet(channel') = {} /\ ToSet(buffer') = {}
  BY <1>1, <1>2, MembersOf
<1>4. InHand' = {} /\ UnderWay' = {}
  <2>1. InHand' = {}
    BY <1>1 DEF InHand
  <2> QED
    BY <1>3, <2>1 DEF UnderWay
<1>5. LogTypes'
  <2>1. handle' \in [day : -1 .. Today(MaxTime), handle : BOOLEAN]
    <3>1. -1 \in -1 .. Today(MaxTime)
      BY LogLimits, DaysFollowTheClock
    <3> QED
      BY <1>1, <3>1 DEF NotOpen
  <2>2. lastWrite' \in -1 .. MaxTime /\ faults' \in Nat
    BY <1>1, LogLimits DEF LogTypes
  <2>3. thread' \in [Threads -> Lines \cup {0}]
    BY <1>1
  <2> QED
    BY <1>1, <1>2, <2>1, <2>2, <2>3, LogLimits DEF LogTypes
<1>6. BatchFits' /\ HandleFits' /\ FilesRespectLimit'
  <2>1. ~handle'.handle
    BY <1>1 DEF NotOpen
  <2>2. BatchFits'
    BY <1>1, <1>2, LogLimits DEF BatchFits
  <2> QED
    BY <1>1, <2>1, <2>2 DEF HandleFits, FilesRespectLimit
<1>7. FilesFit(disk)'
  BY <1>1 DEF FilesFit
<1>8. OnePlace'
  <2>1. 1 .. Len(channel') = {}
    BY <1>2
  <2>2. \A p \in Threads : thread'[p] = 0
    BY <1>1
  <2> QED
    BY <1>1, <1>3, <1>4, <2>1, <2>2 DEF OnePlace
<1>9. Accounted'
  BY <1>1 DEF Accounted, InFile, OutOfAge
<1>10. CountersMatchChannel'
  <2>1. {p \in Threads : thread'[p] # 0} = {}
    BY <1>1
  <2>2. Cardinality({p \in Threads : thread'[p] # 0}) = 0
    BY <2>1, FS_EmptySet, Zenon
  <2>3. queued' = Len(channel') + Cardinality({p \in Threads : thread'[p] # 0})
    BY <1>1, <1>2, <2>2
  <2> QED
    BY <2>3 DEF CountersMatchChannel
<1> QED
  BY <1>5, <1>6, <1>7, <1>8, <1>9, <1>10

LEMMA LogTicks ==
  ASSUME LogInvariant, TickLog
  PROVE  LogInvariant'
<1> USE DEF LogInvariant
<1>1. /\ clock < MaxTime /\ clock' = clock + 1
      /\ UNCHANGED <<thread, logged, channel, queued, processed, dropped, worker, buffer, disk,
                     handle, size, lastWrite, written, swollen, lost, faults>>
  BY DEF TickLog, fileVars
<1>2. clock \in Nat /\ clock' \in 0 .. MaxTime /\ MaxAge \in Nat
  BY <1>1, LogLimits DEF LogTypes
<1>3. LogTypes' /\ BatchFits'
  BY <1>1, <1>2 DEF LogTypes, BatchFits
<1>4. UnderWay' = UnderWay
  BY <1>1 DEF UnderWay, InHand
<1>5. CountersMatchChannel' /\ FilesRespectLimit'
  BY <1>1 DEF CountersMatchChannel, FilesRespectLimit
<1>6. FilesFit(disk)' /\ HandleFits'
  <2>1. \A f \in disk : f.time <= clock'
    <3> SUFFICES ASSUME NEW f \in disk PROVE f.time <= clock'
      OBVIOUS
    <3>1. f.time <= clock /\ f.time \in Int
      BY DEF FilesFit, Files
    <3> QED
      BY <1>1, <1>2, <3>1
  <2> QED
    BY <1>1, <2>1 DEF FilesFit, HandleFits, IsActive
<1>7. OnePlace'
  BY <1>1, <1>4 DEF OnePlace
<1>8. Accounted'
  <2> SUFFICES ASSUME NEW x \in 1 .. logged
               PROVE  (x \in lost \/ x \in UnderWay \/ InFile(x) \/ OutOfAge(x))'
    BY <1>1 DEF Accounted
  <2>1. x \in lost \/ x \in UnderWay \/ InFile(x) \/ OutOfAge(x)
    BY DEF Accounted
  <2>2. written[x] \in Int
    <3>1. x \in Lines
      BY LogLimits DEF LogTypes, Lines
    <3> QED
      BY <3>1 DEF LogTypes
  <2>3. OutOfAge(x) => OutOfAge(x)'
    BY <1>1, <1>2, <2>2 DEF OutOfAge
  <2> QED
    BY <1>1, <1>4, <2>1, <2>3 DEF InFile
<1> QED
  BY <1>3, <1>5, <1>6, <1>7, <1>8

-----------------------------------------------------------------------------
(* The batch is written.                                                   *)

LEMMA TodayIsADay == LogTypes => Today(clock) \in 0 .. Today(MaxTime) /\ clock \in Nat
<1> SUFFICES ASSUME LogTypes PROVE Today(clock) \in 0 .. Today(MaxTime) /\ clock \in Nat
  OBVIOUS
<1>1. clock \in Nat /\ MaxTime \in Nat /\ clock <= MaxTime
  BY LogLimits DEF LogTypes
<1> QED
  BY <1>1, DaysFollowTheClock

\* A line of a file that expires is out of age.
LEMMA ExpiredLines ==
  ASSUME LogTypes, FilesFit(disk), NEW f \in disk, Expired(f), NEW x \in f.lines
  PROVE  OutOfAge(x)
<1>1. written[x] >= 0 /\ written[x] <= f.time /\ f.time <= clock - MaxAge
  BY DEF FilesFit, Expired
<1>2. x \in Lines /\ f.time \in Int
  BY DEF FilesFit, Files
<1>3. written[x] \in Int /\ clock \in Int /\ MaxAge \in Int
  BY <1>2, LogLimits DEF LogTypes
<1> QED
  BY <1>1, <1>2, <1>3 DEF OutOfAge

\* The base file cannot be opened: the batch is lost, the files are renamed at most.
LEMMA FlushIsLost ==
  ASSUME LogInvariant, FlushFails
  PROVE  LogInvariant'
<1> USE DEF LogInvariant
<1>1. /\ worker = "check" /\ faults' = faults + 1
      /\ disk' = disk \/ (IsFull(Ensured) /\ disk' = Renamed(Ensured))
      /\ handle' = [day |-> Today(clock), handle |-> FALSE]
      /\ size' = 0 /\ lastWrite' = -1 /\ lost' = lost \cup ToSet(buffer)
      /\ buffer' = <<>> /\ worker' = "recv"
      /\ UNCHANGED <<thread, logged, channel, queued, processed, dropped, written, swollen, clock>>
  BY DEF FlushFails
<1>2. /\ disk' \subseteq Files
      /\ \A g \in disk' : \E f \in disk : /\ g.lines = f.lines /\ g.time = f.time /\ g.day = f.day
                                          /\ g.stamp = -1 => g = f
      /\ \A g, h \in disk' : g # h => g.lines \cap h.lines = {}
      /\ \A f \in disk : Expired(f) \/ \E g \in disk' : g.lines = f.lines
  <2>1. CASE disk' = disk
    BY <2>1 DEF FilesFit
  <2>2. CASE IsFull(Ensured) /\ disk' = Renamed(Ensured)
    BY <2>2, RenamedFits
  <2> QED
    BY <1>1, <2>1, <2>2
<1>3. buffer' \in Seq(Lines) /\ Len(buffer') = 0 /\ ToSet(buffer') = {}
  <2>1. buffer' \in Seq(Lines) /\ Len(buffer') = 0
    BY <1>1
  <2> QED
    BY <1>1, <2>1, MembersOf
<1>4. LogTypes'
  <2>1. handle' \in [day : -1 .. Today(MaxTime), handle : BOOLEAN]
    <3>1. Today(clock) \in -1 .. Today(MaxTime)
      BY TodayIsADay
    <3> QED
      BY <1>1, <3>1
  <2>2. lastWrite' \in -1 .. MaxTime /\ faults' \in Nat
    BY <1>1, LogLimits DEF LogTypes
  <2> QED
    BY <1>1, <1>3, <2>1, <2>2, LogLimits DEF LogTypes
<1>5. FilesFit(disk)'
  BY <1>1, <1>2 DEF FilesFit
<1>6. HandleFits'
  <2>1. ~handle'.handle
    BY <1>1
  <2> QED
    BY <2>1 DEF HandleFits
<1>7. BatchFits'
  BY <1>1, <1>3, LogLimits DEF BatchFits
<1>8. CountersMatchChannel'
  BY <1>1 DEF CountersMatchChannel
<1>9. FilesRespectLimit'
  BY <1>1, <1>2 DEF FilesRespectLimit
<1>10. InHand' = InHand /\ UnderWay' \subseteq UnderWay /\ UnderWay \subseteq UnderWay' \cup ToSet(buffer)
  BY <1>1, <1>3 DEF InHand, UnderWay
<1>11. OnePlace'
  <2>1. \A f \in disk' : f.lines \cap UnderWay' = {}
    BY <1>2, <1>10 DEF OnePlace
  <2>2. \A f \in disk' : \A x \in f.lines : x <= logged
    BY <1>2 DEF OnePlace
  <2> QED
    BY <1>1, <1>3, <1>10, <2>1, <2>2 DEF OnePlace
<1>12. Accounted'
  <2> SUFFICES ASSUME NEW x \in 1 .. logged
               PROVE  (x \in lost \/ x \in UnderWay \/ InFile(x) \/ OutOfAge(x))'
    BY <1>1 DEF Accounted
  <2>1. x \in lost \/ x \in UnderWay \/ InFile(x) \/ OutOfAge(x)
    BY DEF Accounted
  <2>2. OutOfAge(x) => OutOfAge(x)'
    BY <1>1 DEF OutOfAge
  <2>3. CASE InFile(x)
    <3>1. PICK f \in disk : x \in f.lines
      BY <2>3 DEF InFile
    <3>2. CASE Expired(f)
      BY <2>2, <3>1, <3>2, ExpiredLines
    <3>3. CASE \E g \in disk' : g.lines = f.lines
      BY <3>1, <3>3 DEF InFile
    <3> QED
      BY <1>2, <3>2, <3>3
  <2> QED
    BY <1>1, <1>10, <2>1, <2>2, <2>3
<1> QED
  BY <1>4, <1>5, <1>6, <1>7, <1>8, <1>9, <1>11, <1>12

\* The files once the batch has a file to go to.  The base file of today is among them
\* unless it has just been renamed, and has room for the batch unless the rename failed.
LEMMA FilesBeforeWrite ==
  ASSUME LogTypes, FilesFit(disk), HandleFits, NEW renamed \in BOOLEAN, NEW files,
         files = IF IsFull(Ensured) /\ renamed THEN Renamed(Ensured) ELSE Ensured.disk
  PROVE  /\ files \subseteq Files
         /\ \A g \in files : g = EmptyFile \/
                \E f \in disk : /\ g.lines = f.lines /\ g.time = f.time /\ g.day = f.day
                                /\ g.stamp = -1 => g = f
         /\ \A g, h \in files : g # h => g.lines \cap h.lines = {}
         /\ \A f \in disk : Expired(f) \/ \E g \in files : g.lines = f.lines
         /\ \A f, g \in files : ActiveToday(f) /\ ActiveToday(g) => f = g
         /\ \A f \in files : ActiveToday(f) =>
                ~(IsFull(Ensured) /\ renamed) /\ Cardinality(f.lines) <= Ensured.size
<1>1. CASE IsFull(Ensured) /\ renamed
  <2>1. files = Renamed(Ensured)
    BY <1>1
  <2> QED
    BY <1>1, <2>1, RenamedFits
<1>2. CASE ~(IsFull(Ensured) /\ renamed)
  <2>1. files = Ensured.disk
    BY <1>2
  <2>2. files \subseteq disk \cup {EmptyFile}
    BY <2>1, EnsuredFits
  <2>3. files \subseteq Files
    BY <2>2, EmptyFileFits DEF FilesFit
  <2>4. \A g, h \in files : g # h => g.lines \cap h.lines = {}
    BY <2>2, EmptyFileFits DEF FilesFit
  <2>5. \A f \in disk : Expired(f) \/ f \in files
    BY <2>1, EnsuredFits
  <2>6. /\ \A f, g \in files : ActiveToday(f) /\ ActiveToday(g) => f = g
        /\ \A f \in files : ActiveToday(f) => Cardinality(f.lines) <= Ensured.size
    BY <2>1, EnsuredFits
  <2> QED
    BY <1>2, <2>2, <2>3, <2>4, <2>5, <2>6
<1> QED
  BY <1>1, <1>2

LEMMA BatchIsWritten ==
  ASSUME LogInvariant, NEW renamed \in BOOLEAN, FlushBatch(renamed)
  PROVE  LogInvariant'
<1> USE DEF LogInvariant
<1> DEFINE full == IsFull(Ensured) /\ renamed
           files == IF full THEN Renamed(Ensured) ELSE Ensured.disk
           old == {f \in files : IsActive(f, Today(clock))}
           joined == (UNION {f.lines : f \in old}) \cup ToSet(buffer)
           new == ActiveFile(Today(clock), joined, clock)
<1>1. /\ worker = "check" /\ disk' = (files \ old) \cup {new}
      /\ handle' = [day |-> Today(clock), handle |-> TRUE]
      /\ size' = Len(buffer) + (IF full THEN 0 ELSE Ensured.size)
      /\ lastWrite' = clock
      /\ written' = [x \in Lines |-> IF x \in ToSet(buffer) THEN clock ELSE written[x]]
      /\ swollen' = (swollen \/ ~renamed)
      /\ faults' = IF renamed THEN faults ELSE faults + 1
      /\ buffer' = <<>> /\ worker' = "recv"
      /\ UNCHANGED <<thread, logged, channel, queued, processed, dropped, clock, lost>>
  BY DEF FlushBatch
<1>2. /\ files \subseteq Files
      /\ \A g \in files : g = EmptyFile \/
             \E f \in disk : /\ g.lines = f.lines /\ g.time = f.time /\ g.day = f.day
                             /\ g.stamp = -1 => g = f
      /\ \A g, h \in files : g # h => g.lines \cap h.lines = {}
      /\ \A f \in disk : Expired(f) \/ \E g \in files : g.lines = f.lines
      /\ \A f, g \in files : ActiveToday(f) /\ ActiveToday(g) => f = g
      /\ \A f \in files : ActiveToday(f) => ~full /\ Cardinality(f.lines) <= Ensured.size
  BY FilesBeforeWrite
<1>3. Ensured.size \in Nat /\ (~IsFull(Ensured) =>
            Ensured.size = 0 \/ Ensured.size + Len(buffer) <= MaxSize)
  <2>1. Ensured.size \in Nat
    BY EnsuredFits
  <2>2. Len(buffer) \in Nat
    BY DEF LogTypes
  <2> QED
    BY <2>1, <2>2, LogLimits DEF IsFull
<1> HIDE DEF files, full
<1>4. /\ buffer \in Seq(Lines) /\ Len(buffer) \in Nat /\ Len(buffer) <= BatchSize /\ buffer # <<>>
      /\ ToSet(buffer) \subseteq Lines /\ ToSet(buffer) # {}
      /\ Cardinality(ToSet(buffer)) <= Len(buffer) /\ Cardinality(ToSet(buffer)) \in Nat
  <2>1. buffer \in Seq(Lines) /\ Len(buffer) \in Nat /\ Len(buffer) <= BatchSize /\ buffer # <<>>
    BY <1>1 DEF LogTypes, BatchFits
  <2> QED
    BY <2>1, MembersOf, LinesAreFinite
<1>5. buffer' \in Seq(Lines) /\ Len(buffer') = 0 /\ ToSet(buffer') = {}
  <2>1. buffer' \in Seq(Lines) /\ Len(buffer') = 0
    BY <1>1
  <2> QED
    BY <1>1, <2>1, MembersOf
<1>6. \A f \in files : f.lines \in SUBSET Lines
  BY <1>2 DEF Files
<1>7. \A x : x \in joined <=> x \in ToSet(buffer) \/ \E f \in old : x \in f.lines
  <2> HIDE DEF old
  <2> QED
    OBVIOUS
<1>8. \A f : f \in old <=> f \in files /\ ActiveToday(f)
  BY DEF ActiveToday
<1> HIDE DEF joined, old
<1>9. joined \subseteq Lines /\ joined # {} /\ IsFiniteSet(joined) /\ Cardinality(joined) \in Nat
  <2>1. joined \subseteq Lines
    BY <1>4, <1>6, <1>7, <1>8
  <2>2. joined # {}
    BY <1>4, <1>7
  <2> QED
    BY <2>1, <2>2, LinesAreFinite
\* What is in the base file now.
<1>10. \/ joined = ToSet(buffer)
       \/ ~full /\ \E o \in files : ActiveToday(o) /\ joined = o.lines \cup ToSet(buffer)
  <2>1. CASE old = {}
    BY <1>7, <2>1
  <2>2. CASE old # {}
    <3>1. PICK o \in files : o \in old /\ ActiveToday(o)
      BY <1>8, <2>2
    <3>2. \A f \in old : f = o
      BY <1>2, <1>8, <3>1
    <3>3. joined = o.lines \cup ToSet(buffer)
      BY <1>7, <3>1, <3>2
    <3> QED
      BY <1>2, <3>1, <3>3
  <2> QED
    BY <2>1, <2>2
<1>11. \/ Cardinality(joined) <= Len(buffer)
       \/ ~full /\ Cardinality(joined) <= Ensured.size + Len(buffer)
  <2>1. CASE joined = ToSet(buffer)
    BY <1>4, <2>1
  <2>2. ASSUME ~full, NEW o \in files, ActiveToday(o), joined = o.lines \cup ToSet(buffer)
        PROVE  Cardinality(joined) <= Ensured.size + Len(buffer)
    <3>1. Cardinality(o.lines) <= Ensured.size
      BY <1>2, <2>2
    <3>2. /\ IsFiniteSet(o.lines) /\ IsFiniteSet(ToSet(buffer)) /\ IsFiniteSet(o.lines \cap ToSet(buffer))
          /\ Cardinality(o.lines) \in Nat /\ Cardinality(o.lines \cap ToSet(buffer)) \in Nat
      BY <1>4, <1>6, LinesAreFinite
    <3>3. Cardinality(joined)
            = Cardinality(o.lines) + Cardinality(ToSet(buffer)) - Cardinality(o.lines \cap ToSet(buffer))
      <4>1. Cardinality(o.lines \cup ToSet(buffer))
            = Cardinality(o.lines) + Cardinality(ToSet(buffer)) - Cardinality(o.lines \cap ToSet(buffer))
        BY <3>2, FS_Union
      <4> QED
        BY <2>2, <4>1
    <3> QED
      BY <1>3, <1>4, <1>9, <3>1, <3>2, <3>3
  <2> QED
    BY <1>10, <2>1, <2>2
<1>12. Cardinality(joined) <= size' /\ size' \in Nat
  <2> QED
    BY <1>1, <1>3, <1>4, <1>9, <1>11
<1>13. renamed => Cardinality(joined) <= IF MaxSize >= BatchSize THEN MaxSize ELSE BatchSize
  <2> SUFFICES ASSUME renamed
               PROVE  Cardinality(joined) <= IF MaxSize >= BatchSize THEN MaxSize ELSE BatchSize
    OBVIOUS
  <2>1. CASE Cardinality(joined) <= Len(buffer)
    BY <1>4, <1>9, <2>1, LogLimits
  <2>2. CASE ~full /\ Cardinality(joined) <= Ensured.size + Len(buffer)
    <3>1. Ensured.size = 0 \/ Ensured.size + Len(buffer) <= MaxSize
      BY <1>3, <2>2 DEF full
    <3> QED
      BY <1>3, <1>4, <1>9, <2>2, <3>1, LogLimits
  <2> QED
    BY <1>11, <2>1, <2>2
<1>14. new \in Files /\ new.lines = joined /\ new.time = clock /\ new.day = Today(clock)
       /\ new.stamp = -1
  <2>1. -1 \in -1 .. MaxTime /\ 0 \in 0 .. MaxLines /\ clock \in 0 .. MaxTime
    BY LogLimits DEF LogTypes
  <2> QED
    BY <1>9, <2>1, TodayIsADay DEF ActiveFile, Files
<1>15. \A g \in files \ old : ~ActiveToday(g) /\
             \E f \in disk : /\ g.lines = f.lines /\ g.time = f.time /\ g.day = f.day
                             /\ g.stamp = -1 => g = f
  <2>1. \A g \in files \ old : ~ActiveToday(g)
    BY <1>8
  <2>2. ActiveToday(EmptyFile)
    BY EmptyFileFits
  <2> QED
    BY <1>2, <2>1, <2>2
<1>16. \A g \in files : g.lines \cap ToSet(buffer) = {} /\ \A x \in g.lines : x <= logged
  <2>1. \A f \in disk : f.lines \cap ToSet(buffer) = {} /\ \A x \in f.lines : x <= logged
    BY DEF OnePlace, UnderWay
  <2> QED
    BY <1>2, <2>1, EmptyFileFits
<1>17. \A g \in files \ old : g.lines \cap joined = {}
  <2> SUFFICES ASSUME NEW g \in files \ old, NEW x \in g.lines, x \in joined PROVE FALSE
    OBVIOUS
  <2>1. x \notin ToSet(buffer)
    BY <1>16
  <2>2. PICK f \in old : x \in f.lines
    BY <1>7, <2>1
  <2> QED
    BY <1>2, <1>8, <2>2
<1>18. \A x \in joined : x \in ToSet(buffer) \/
            (x \notin ToSet(buffer) /\ \E f \in disk : x \in f.lines)
  <2> SUFFICES ASSUME NEW x \in joined, x \notin ToSet(buffer) PROVE \E f \in disk : x \in f.lines
    OBVIOUS
  <2>1. PICK g \in files : x \in g.lines
    BY <1>7, <1>8
  <2> QED
    BY <1>2, <2>1, EmptyFileFits
<1> HIDE DEF new
<1>19. LogTypes'
  <2>1. handle' \in [day : -1 .. Today(MaxTime), handle : BOOLEAN]
    <3>1. Today(clock) \in -1 .. Today(MaxTime)
      BY TodayIsADay
    <3> QED
      BY <1>1, <3>1
  <2>2. lastWrite' \in -1 .. MaxTime /\ clock \in -1 .. MaxTime
    BY <1>1, LogLimits DEF LogTypes
  <2>3. written' \in [Lines -> -1 .. MaxTime]
    BY <1>1, <2>2 DEF LogTypes
  <2>4. swollen' \in BOOLEAN /\ faults' \in Nat
    BY <1>1 DEF LogTypes
  <2> QED
    BY <1>1, <1>5, <1>12, <2>1, <2>2, <2>3, <2>4, LogLimits DEF LogTypes
<1>20. FilesFit(disk)'
  <2>1. \A f \in disk' : f.lines # {} /\ f.time <= clock
    BY <1>1, <1>9, <1>14, <1>15, TodayIsADay DEF FilesFit
  <2>2. \A f, g \in disk' : f # g => f.lines \cap g.lines = {}
    BY <1>1, <1>2, <1>14, <1>17
  <2>3. \A f, g \in disk' : f.stamp = -1 /\ g.stamp = -1 /\ f.day = g.day => f = g
    <3>1. \A f \in files \ old : f.stamp = -1 => f.day # Today(clock) /\ f \in disk
      BY <1>15 DEF ActiveToday, IsActive
    <3> QED
      BY <1>1, <1>14, <3>1 DEF FilesFit
  <2>4. \A f \in disk' : f.stamp = -1 => Today(f.time) = f.day
    BY <1>1, <1>14, <1>15 DEF FilesFit
  <2>5. \A f \in disk' : \A x \in f.lines : written'[x] >= 0 /\ written'[x] <= f.time
    <3>1. ASSUME NEW f \in files \ old, NEW x \in f.lines
          PROVE  written'[x] >= 0 /\ written'[x] <= f.time
      <4>1. PICK k \in disk : f.lines = k.lines /\ f.time = k.time
        BY <1>15
      <4>2. written'[x] = written[x]
        BY <1>1, <1>6, <1>16
      <4> QED
        BY <4>1, <4>2 DEF FilesFit
    <3>2. ASSUME NEW x \in joined
          PROVE  written'[x] >= 0 /\ written'[x] <= clock
      <4>1. x \in Lines /\ clock \in Nat
        BY <1>9, TodayIsADay
      <4>2. CASE x \in ToSet(buffer)
        BY <1>1, <4>1, <4>2
      <4>3. ASSUME x \notin ToSet(buffer), NEW f \in disk, x \in f.lines
            PROVE  written'[x] >= 0 /\ written'[x] <= clock
        <5>1. written'[x] = written[x]
          BY <1>1, <4>1, <4>3
        <5>2. written[x] >= 0 /\ written[x] <= f.time /\ f.time <= clock
          BY <4>3 DEF FilesFit
        <5>3. written[x] \in Int /\ f.time \in Int
          BY <4>1 DEF LogTypes, FilesFit, Files
        <5> QED
          BY <4>1, <5>1, <5>2, <5>3
      <4> QED
        BY <1>18, <4>2, <4>3
    <3> QED
      BY <1>1, <1>14, <3>1, <3>2
  <2>6. disk' \subseteq Files
    BY <1>1, <1>2, <1>14
  <2> QED
    BY <1>1, <2>1, <2>2, <2>3, <2>4, <2>5, <2>6 DEF FilesFit
<1>21. HandleFits'
  <2>1. handle'.day = Today(clock) /\ new \in disk'
    BY <1>1
  <2> QED
    BY <1>12, <1>14, <2>1 DEF HandleFits, IsActive
<1>22. BatchFits'
  BY <1>1, <1>5, LogLimits DEF BatchFits
<1>23. CountersMatchChannel'
  BY <1>1 DEF CountersMatchChannel
<1>24. FilesRespectLimit'
  <2> SUFFICES ASSUME ~swollen', NEW f \in disk'
               PROVE  Cardinality(f.lines) <= IF MaxSize >= BatchSize THEN MaxSize ELSE BatchSize
    BY DEF FilesRespectLimit
  <2>1. ~swollen /\ renamed
    BY <1>1
  <2>2. CASE f = new
    BY <1>13, <1>14, <2>1, <2>2
  <2>3. CASE f \in files \ old
    <3>1. PICK k \in disk : f.lines = k.lines
      BY <1>15, <2>3
    <3> QED
      BY <2>1, <3>1 DEF FilesRespectLimit
  <2> QED
    BY <1>1, <2>2, <2>3
<1>25. InHand' = InHand /\ UnderWay' \subseteq UnderWay /\ UnderWay \subseteq UnderWay' \cup ToSet(buffer)
  BY <1>1, <1>5 DEF InHand, UnderWay
<1>26. UnderWay' \cap ToSet(buffer) = {}
  <2>1. UnderWay' = InHand \cup ToSet(channel)
    BY <1>1, <1>5, <1>25 DEF UnderWay
  <2>2. InHand \cap ToSet(buffer) = {}
    BY DEF OnePlace, InHand
  <2>3. ToSet(channel) \cap ToSet(buffer) = {}
    BY DEF OnePlace
  <2> QED
    BY <2>1, <2>2, <2>3
<1>27. \A f \in disk' : f.lines \cap UnderWay' = {} /\ \A x \in f.lines : x <= logged
  <2>1. \A f \in disk : f.lines \cap UnderWay' = {} /\ \A x \in f.lines : x <= logged
    BY <1>25 DEF OnePlace
  <2>2. \A x \in ToSet(buffer) : x <= logged
    BY DEF OnePlace, UnderWay
  <2>3. \A f \in files \ old : f.lines \cap UnderWay' = {} /\ \A x \in f.lines : x <= logged
    BY <1>15, <2>1
  <2>4. joined \cap UnderWay' = {} /\ \A x \in joined : x <= logged
    BY <1>18, <1>26, <2>1, <2>2
  <2> QED
    BY <1>1, <1>14, <2>3, <2>4
<1>28. OnePlace'
  BY <1>1, <1>5, <1>25, <1>27 DEF OnePlace
<1>29. Accounted'
  <2> SUFFICES ASSUME NEW x \in 1 .. logged
               PROVE  (x \in lost \/ x \in UnderWay \/ InFile(x) \/ OutOfAge(x))'
    BY <1>1 DEF Accounted
  <2>1. x \in lost \/ x \in UnderWay \/ InFile(x) \/ OutOfAge(x)
    BY DEF Accounted
  <2>2. joined \subseteq UNION {f.lines : f \in disk'}
    BY <1>1, <1>14
  <2>3. ToSet(buffer) \subseteq joined /\ \A g \in old : g.lines \subseteq joined
    BY <1>7
  <2>4. CASE x \in ToSet(buffer)
    BY <2>2, <2>3, <2>4 DEF InFile
  <2>5. x \notin ToSet(buffer) => (OutOfAge(x) => OutOfAge(x)')
    <3>1. x \in Lines
      BY LogLimits DEF LogTypes, Lines
    <3> QED
      BY <1>1, <3>1 DEF OutOfAge
  <2>6. CASE x \notin ToSet(buffer) /\ InFile(x)
    <3>1. PICK f \in disk : x \in f.lines
      BY <2>6 DEF InFile
    <3>2. CASE Expired(f)
      BY <2>5, <2>6, <3>1, <3>2, ExpiredLines
    <3>3. ASSUME NEW g \in files, g.lines = f.lines
          PROVE  InFile(x)'
      <4>1. CASE g \in old
        BY <2>2, <2>3, <3>1, <3>3, <4>1 DEF InFile
      <4>2. CASE g \notin old
        BY <1>1, <3>1, <3>3, <4>2 DEF InFile
      <4> QED
        BY <4>1, <4>2
    <3> QED
      BY <1>2, <3>2, <3>3
  <2> QED
    BY <1>1, <1>25, <2>1, <2>4, <2>5, <2>6
<1> QED
  BY <1>19, <1>20, <1>21, <1>22, <1>23, <1>24, <1>28, <1>29

LEMMA LogKeeps == LogInvariant /\ [LWNext]_lwVars => LogInvariant'
<1> SUFFICES ASSUME LogInvariant, [LWNext]_lwVars PROVE LogInvariant'
  OBVIOUS
<1>1. ASSUME UNCHANGED lwVars PROVE LogInvariant'
  <2>1. UNCHANGED <<thread, logged, channel, queued, processed, dropped, worker, buffer, disk,
                    handle, size, lastWrite, clock, written, lost, swollen, faults>>
    BY <1>1 DEF lwVars
  <2>2. UnderWay' = UnderWay
    BY <2>1 DEF UnderWay, InHand
  <2>3. LogTypes' /\ BatchFits' /\ CountersMatchChannel' /\ FilesRespectLimit'
    BY <2>1 DEF LogInvariant, LogTypes, BatchFits, CountersMatchChannel, FilesRespectLimit
  <2>4. FilesFit(disk)' /\ HandleFits'
    BY <2>1 DEF LogInvariant, FilesFit, HandleFits, IsActive
  <2>5. OnePlace' /\ Accounted'
    BY <2>1, <2>2 DEF LogInvariant, OnePlace, Accounted, InFile, OutOfAge
  <2> QED
    BY <2>3, <2>4, <2>5 DEF LogInvariant
<1>2. ASSUME NEW p \in Threads, CountLine(p) \/ SendLine(p) PROVE LogInvariant'
  BY <1>2, LineIsCounted, LineIsSent
<1>3. ASSUME NEW renamed \in BOOLEAN, FlushBatch(renamed) PROVE LogInvariant'
  BY <1>3, BatchIsWritten
<1> QED
  BY <1>1, <1>2, <1>3, LineIsTaken, LogCollects, FlushIsLost, LogRestarts, LogTicks DEF LWNext

\* Type correctness of the log (LWTypeOK): the channel and the batch keep their bounds, and
\* no file has a name outside of the numbers an archive may get.
THEOREM LogTypeCorrect == LWSpec => []LWTypeOK
<1>1. LogInvariant => LWTypeOK
  BY DEF LogInvariant, LogTypes, FilesFit, LWTypeOK
<1> QED
  BY <1>1, LogStarts, LogKeeps, PTL DEF LWSpec

\* No line vanishes (LinesAreAccounted): whatever threads, rotations, failed renames,
\* restarts and new days do, a logged line is lost for a stated reason, on its way, in one
\* file, or too old; and the counters, the batch and the sizes of the files fit.
THEOREM EveryLineIsAccounted == LWSpec => []LinesAreAccounted
<1>1. LogInvariant => LinesAreAccounted
  <2> SUFFICES ASSUME LogInvariant PROVE LinesAreAccounted
    OBVIOUS
  <2> USE DEF LogInvariant
  <2>1. NoLineVanishes
    <3> SUFFICES ASSUME NEW x \in 1 .. logged
                 PROVE  \/ x \in lost \cup ToSet(channel) \cup ToSet(buffer)
                        \/ \E p \in Threads : thread[p] = x
                        \/ Cardinality({f \in disk : x \in f.lines}) = 1
                        \/ written[x] >= 0 /\ written[x] <= clock - MaxAge
      BY DEF NoLineVanishes
    <3>1. x \in lost \/ x \in UnderWay \/ InFile(x) \/ OutOfAge(x)
      BY DEF Accounted
    <3>2. x \in UnderWay => x \in ToSet(channel) \cup ToSet(buffer) \/ \E p \in Threads : thread[p] = x
      BY DEF UnderWay, InHand
    <3>3. InFile(x) => Cardinality({f \in disk : x \in f.lines}) = 1
      <4> SUFFICES ASSUME NEW f \in disk, x \in f.lines
                   PROVE  Cardinality({k \in disk : x \in k.lines}) = 1
        BY DEF InFile
      <4>1. {k \in disk : x \in k.lines} = {f}
        BY DEF FilesFit
      <4> QED
        BY <4>1, FS_Singleton
    <3> QED
      BY <3>1, <3>2, <3>3 DEF OutOfAge
  <2>2. WaitsWithEmptyBuffer
    BY DEF BatchFits, WaitsWithEmptyBuffer
  <2> QED
    BY <2>1, <2>2 DEF LinesAreAccounted
<1> QED
  BY <1>1, LogStarts, LogKeeps, PTL DEF LWSpec

-----------------------------------------------------------------------------
(* The ranking, for any stocks, days, returns, filters and sizes of pages. *)

LEMMA RankingLimits ==
    /\ Ranked \subseteq Nat /\ IsFiniteSet(Ranked) /\ Filters \subseteq SUBSET Ranked
    /\ RankDates \subseteq Nat /\ 0 \notin RankDates /\ 1 \in RankDates
    /\ Returns \subseteq Nat /\ Limits \subseteq Nat \ {0} /\ MaxRankingSaves \in Nat
BY RankingAssumption

\* The rows of a day, and what a request finds in them.
DayRows == [Ranked -> Returns \cup {NoReturn}]
Complete(r) == {s \in Ranked : r[s] > Incomplete}
Ahead(r, s, t) == r[s] > r[t] \/ (r[s] = r[t] /\ s < t)
Asked(r, filter, incomplete) ==
    {s \in filter : r[s] > Incomplete \/ (incomplete /\ r[s] = Incomplete)}

\* The order of a page, the place in it, the rank among all, and the item shown.
ComesBefore(r, s, t) ==
    IF r[s] > Incomplete THEN ~(r[t] > Incomplete) \/ Ahead(r, s, t)
    ELSE ~(r[t] > Incomplete) /\ s < t
PlaceIn(r, M, s) == Cardinality({t \in M : ComesBefore(r, t, s)})
RankIn(r, s) ==
    IF r[s] > Incomplete THEN 1 + Cardinality({t \in Complete(r) : Ahead(r, t, s)}) ELSE 0
ItemIn(r, s) == [stock |-> s, rank |-> RankIn(r, s), return |-> r[s]]
Items == [stock : Ranked, rank : Nat, return : Int]

\* The list of the places from f on.
ListsFrom(r, M, f, list) ==
    /\ list \in Seq(Items)
    /\ \A n \in 1 .. Len(list) :
            \E s \in M : PlaceIn(r, M, s) = f + n - 1 /\ list[n] = ItemIn(r, s)

LEMMA RowsAreNumbers ==
  ASSUME NEW r \in DayRows
  PROVE  \A s \in Ranked : s \in Nat /\ r[s] \in Int /\ (r[s] = NoReturn \/ r[s] >= 0)
<1> TAKE s \in Ranked
<1>1. r[s] \in Returns \cup {NoReturn}
  BY DEF DayRows
<1>2. Returns \subseteq Nat /\ Ranked \subseteq Nat
  BY RankingLimits
<1>3. r[s] \in Nat \/ r[s] = NoReturn
  BY <1>1, <1>2
<1> QED
  BY <1>2, <1>3 DEF NoReturn

LEMMA FiniteRanked ==
  ASSUME NEW M \in SUBSET Ranked
  PROVE  IsFiniteSet(M) /\ Cardinality(M) \in Nat
<1>1. IsFiniteSet(M)
  BY RankingLimits, FS_Subset
<1> QED
  BY <1>1, FS_CardinalityType

\* Fewer members, when one of the others is left out.
LEMMA FewerMembers ==
  ASSUME NEW M \in SUBSET Ranked, NEW L \in SUBSET M, NEW s \in M \ L
  PROVE  Cardinality(L) < Cardinality(M)
<1>1. IsFiniteSet(M) /\ Cardinality(M) \in Nat /\ L \in SUBSET Ranked
  BY FiniteRanked
<1>2. Cardinality(L) \in Nat /\ Cardinality(L) <= Cardinality(M) /\ Cardinality(M) # Cardinality(L)
  <2>1. Cardinality(L) \in Nat
    BY <1>1, FiniteRanked
  <2>2. Cardinality(L) <= Cardinality(M) /\ (Cardinality(M) = Cardinality(L) => M = L)
    BY <1>1, FS_Subset
  <2> QED
    BY <2>1, <2>2
<1> QED
  BY <1>1, <1>2

\* The order of a page is a strict order of all its stocks.
LEMMA OrderOfPage ==
  ASSUME NEW r \in DayRows
  PROVE  /\ \A s \in Ranked : ~ComesBefore(r, s, s) /\ ~Ahead(r, s, s)
         /\ \A s, t \in Ranked : s = t \/ ComesBefore(r, s, t) \/ ComesBefore(r, t, s)
         /\ \A s, t, u \in Ranked :
                ComesBefore(r, s, t) /\ ComesBefore(r, t, u) => ComesBefore(r, s, u)
         /\ \A s, t, u \in Ranked : Ahead(r, s, t) /\ Ahead(r, t, u) => Ahead(r, s, u)
<1>1. \A s \in Ranked : s \in Int /\ r[s] \in Int
  BY RowsAreNumbers
<1>2. \A s \in Ranked : ~ComesBefore(r, s, s) /\ ~Ahead(r, s, s)
  BY <1>1 DEF ComesBefore, Ahead, Incomplete
<1>3. \A s, t \in Ranked : s = t \/ ComesBefore(r, s, t) \/ ComesBefore(r, t, s)
  BY <1>1 DEF ComesBefore, Ahead, Incomplete
<1>4. \A s, t, u \in Ranked : Ahead(r, s, t) /\ Ahead(r, t, u) => Ahead(r, s, u)
  BY <1>1 DEF Ahead
<1>5. \A s, t, u \in Ranked : ComesBefore(r, s, t) /\ ComesBefore(r, t, u) => ComesBefore(r, s, u)
  BY <1>1, <1>4 DEF ComesBefore, Incomplete
<1> QED
  BY <1>2, <1>3, <1>4, <1>5

\* Who comes first has the smaller place, and every place has a stock.
LEMMA PlacesFollowOrder ==
  ASSUME NEW r \in DayRows, NEW M \in SUBSET Ranked
  PROVE  /\ \A s \in M : PlaceIn(r, M, s) \in 0 .. Cardinality(M) - 1
         /\ \A s, t \in M : ComesBefore(r, s, t) => PlaceIn(r, M, s) < PlaceIn(r, M, t)
<1> DEFINE B(s) == {t \in M : ComesBefore(r, t, s)}
<1>1. \A s \in M : s \notin B(s)
  BY OrderOfPage
<1>2. Cardinality(M) \in Nat /\ \A s \in M : Cardinality(B(s)) \in Nat
  BY FiniteRanked
<1>3. ASSUME NEW s \in M PROVE Cardinality(B(s)) < Cardinality(M)
  <2>1. B(s) \in SUBSET M /\ s \in M \ B(s)
    BY <1>1
  <2> HIDE DEF B
  <2> QED
    BY <2>1, FewerMembers
<1>4. ASSUME NEW s \in M, NEW t \in M, ComesBefore(r, s, t)
      PROVE  Cardinality(B(s)) < Cardinality(B(t))
  <2>1. B(s) \subseteq B(t)
    BY <1>4, OrderOfPage
  <2>2. s \in B(t) /\ s \notin B(s) /\ B(t) \in SUBSET Ranked
    BY <1>1, <1>4
  <2> HIDE DEF B
  <2> QED
    BY <2>1, <2>2, FewerMembers
<1>5. \A s \in M : PlaceIn(r, M, s) = Cardinality(B(s))
  BY DEF PlaceIn
<1> HIDE DEF B
<1>6. \A s \in M : PlaceIn(r, M, s) \in 0 .. Cardinality(M) - 1
  BY <1>2, <1>3, <1>5
<1> QED
  BY <1>4, <1>5, <1>6

LEMMA PlacesAreOnce ==
  ASSUME NEW r \in DayRows, NEW M \in SUBSET Ranked
  PROVE  /\ \A s, t \in M : PlaceIn(r, M, s) = PlaceIn(r, M, t) => s = t
         /\ \A s, t \in M : PlaceIn(r, M, s) < PlaceIn(r, M, t) => ComesBefore(r, s, t)
         /\ \A n \in 0 .. Cardinality(M) - 1 : \E s \in M : PlaceIn(r, M, s) = n
<1>1. \A s \in M : PlaceIn(r, M, s) \in 0 .. Cardinality(M) - 1
  BY PlacesFollowOrder
<1>2. Cardinality(M) \in Nat /\ IsFiniteSet(M)
  BY FiniteRanked
<1>3. \A s, t \in M : PlaceIn(r, M, s) = PlaceIn(r, M, t) => s = t
  BY <1>1, <1>2, PlacesFollowOrder, OrderOfPage
<1>4. \A s, t \in M : PlaceIn(r, M, s) < PlaceIn(r, M, t) => ComesBefore(r, s, t)
  BY <1>1, <1>2, PlacesFollowOrder, OrderOfPage
<1> DEFINE P == [s \in M |-> PlaceIn(r, M, s)]
           N == 0 .. Cardinality(M) - 1
<1>5. P \in Injection(M, N)
  BY <1>1, <1>3 DEF Injection, IsInjective
<1>6. IsFiniteSet(N) /\ Cardinality(N) = Cardinality(M)
  <2>1. /\ IsFiniteSet(N)
        /\ Cardinality(N) = IF 0 > Cardinality(M) - 1 THEN 0 ELSE Cardinality(M) - 1 - 0 + 1
    BY <1>2, FS_Interval
  <2> QED
    BY <1>2, <2>1
<1>7. P \in Surjection(M, N)
  <2> HIDE DEF P, N
  <2> QED
    BY <1>5, <1>6, FS_Injection
<1>8. \A n \in N : \E s \in M : P[s] = n
  BY <1>7 DEF Surjection
<1> QED
  BY <1>3, <1>4, <1>8

\* Better ranks come first, and no rank exceeds the number of the ranked.
LEMMA RanksFollowOrder ==
  ASSUME NEW r \in DayRows
  PROVE  /\ \A s \in Ranked : /\ RankIn(r, s) \in Nat /\ RankIn(r, s) <= Cardinality(Complete(r))
                              /\ RankIn(r, s) > 0 <=> r[s] > Incomplete
         /\ \A s, t \in Ranked : ComesBefore(r, s, t) =>
                \/ RankIn(r, s) > 0 /\ (RankIn(r, t) = 0 \/ RankIn(r, s) < RankIn(r, t))
                \/ RankIn(r, s) = 0 /\ RankIn(r, t) = 0 /\ s < t
<1> DEFINE A(s) == {t \in Complete(r) : Ahead(r, t, s)}
<1>1. Complete(r) \in SUBSET Ranked /\ \A s \in Ranked : A(s) \in SUBSET Complete(r)
  BY DEF Complete
<1>2. Cardinality(Complete(r)) \in Nat /\ \A s \in Ranked : Cardinality(A(s)) \in Nat
  BY <1>1, FiniteRanked
<1>3. \A s \in Ranked : s \notin A(s) /\ (s \in Complete(r) <=> r[s] > Incomplete)
  BY OrderOfPage DEF Complete
<1>4. ASSUME NEW s \in Ranked, r[s] > Incomplete
      PROVE  Cardinality(A(s)) < Cardinality(Complete(r))
  <2>1. s \in Complete(r) \ A(s)
    BY <1>3, <1>4
  <2> HIDE DEF A
  <2> QED
    BY <1>1, <2>1, FewerMembers
<1>5. ASSUME NEW s \in Ranked, NEW t \in Ranked, r[s] > Incomplete, Ahead(r, s, t)
      PROVE  Cardinality(A(s)) < Cardinality(A(t))
  <2>1. A(s) \subseteq A(t)
    BY <1>1, <1>5, OrderOfPage
  <2>2. s \in A(t) \ A(s) /\ A(t) \in SUBSET Ranked
    BY <1>1, <1>3, <1>5
  <2> HIDE DEF A
  <2> QED
    BY <2>1, <2>2, FewerMembers
<1>6. \A s \in Ranked : RankIn(r, s) = IF r[s] > Incomplete THEN 1 + Cardinality(A(s)) ELSE 0
  BY DEF RankIn
<1> HIDE DEF A
<1>7. \A s \in Ranked : /\ RankIn(r, s) \in Nat /\ RankIn(r, s) <= Cardinality(Complete(r))
                        /\ RankIn(r, s) > 0 <=> r[s] > Incomplete
  BY <1>2, <1>4, <1>6
<1>8. ASSUME NEW s \in Ranked, NEW t \in Ranked, ComesBefore(r, s, t)
      PROVE  \/ RankIn(r, s) > 0 /\ (RankIn(r, t) = 0 \/ RankIn(r, s) < RankIn(r, t))
             \/ RankIn(r, s) = 0 /\ RankIn(r, t) = 0 /\ s < t
  <2>1. CASE r[s] > Incomplete /\ r[t] > Incomplete
    <3>1. Cardinality(A(s)) < Cardinality(A(t))
      BY <1>5, <1>8, <2>1 DEF ComesBefore
    <3> QED
      BY <1>2, <1>6, <2>1, <3>1
  <2>2. CASE r[s] > Incomplete /\ ~(r[t] > Incomplete)
    BY <1>2, <1>6, <2>2
  <2>3. CASE ~(r[s] > Incomplete)
    <3>1. ~(r[t] > Incomplete) /\ s < t
      BY <1>8, <2>3 DEF ComesBefore
    <3> QED
      BY <1>6, <2>3, <3>1
  <2> QED
    BY <2>1, <2>2, <2>3
<1>9. \A s, t \in Ranked : ComesBefore(r, s, t) =>
                \/ RankIn(r, s) > 0 /\ (RankIn(r, t) = 0 \/ RankIn(r, s) < RankIn(r, t))
                \/ RankIn(r, s) = 0 /\ RankIn(r, t) = 0 /\ s < t
  BY <1>8
<1> QED
  BY <1>7, <1>9

\* A list of places is in the order of the ranks, shows no stock twice, and continues.
LEMMA ListsAreInOrder ==
  ASSUME NEW r \in DayRows, NEW M \in SUBSET Ranked, NEW f \in Nat, NEW list,
         ListsFrom(r, M, f, list)
  PROVE  InRankOrder(list)
<1>1. \A s \in M : PlaceIn(r, M, s) \in Int
  BY PlacesFollowOrder, FiniteRanked
<1>2. list \in Seq(Items) /\ DOMAIN list = 1 .. Len(list)
  BY DEF ListsFrom
<1> SUFFICES ASSUME NEW m \in 1 .. Len(list), NEW n \in 1 .. Len(list), m < n
             PROVE  \/ list[m].rank > 0 /\ (list[n].rank = 0 \/ list[m].rank < list[n].rank)
                    \/ list[m].rank = 0 /\ list[n].rank = 0 /\ list[m].stock < list[n].stock
  BY <1>2 DEF InRankOrder
<1>3. PICK s \in M : PlaceIn(r, M, s) = f + m - 1 /\ list[m] = ItemIn(r, s)
  BY DEF ListsFrom
<1>4. PICK t \in M : PlaceIn(r, M, t) = f + n - 1 /\ list[n] = ItemIn(r, t)
  BY DEF ListsFrom
<1>5. f + m - 1 < f + n - 1
  BY <1>2
<1>6. ComesBefore(r, s, t)
  <2>1. PlaceIn(r, M, s) < PlaceIn(r, M, t)
    BY <1>3, <1>4, <1>5
  <2> QED
    BY <2>1, PlacesAreOnce
<1>7. /\ list[m].rank = RankIn(r, s) /\ list[m].stock = s
      /\ list[n].rank = RankIn(r, t) /\ list[n].stock = t
  BY <1>3, <1>4 DEF ItemIn
<1> QED
  BY <1>6, <1>7, RanksFollowOrder

LEMMA ListsAddUp ==
  ASSUME NEW r \in DayRows, NEW M \in SUBSET Ranked, NEW list, NEW more,
         ListsFrom(r, M, 0, list), ListsFrom(r, M, Len(list), more)
  PROVE  ListsFrom(r, M, 0, list \o more) /\ Len(list \o more) = Len(list) + Len(more)
<1>1. list \in Seq(Items) /\ more \in Seq(Items)
  BY DEF ListsFrom
<1>2. list \o more \in Seq(Items) /\ Len(list \o more) = Len(list) + Len(more)
  BY <1>1
<1>3. ASSUME NEW n \in 1 .. Len(list) + Len(more)
      PROVE  \E s \in M : PlaceIn(r, M, s) = 0 + n - 1 /\ (list \o more)[n] = ItemIn(r, s)
  <2>1. CASE n \in 1 .. Len(list)
    <3>1. (list \o more)[n] = list[n]
      BY <1>1, <2>1
    <3> QED
      BY <2>1, <3>1 DEF ListsFrom
  <2>2. CASE n \notin 1 .. Len(list)
    <3>1. n - Len(list) \in 1 .. Len(more) /\ (list \o more)[n] = more[n - Len(list)]
      BY <1>1, <2>2
    <3>2. PICK s \in M : /\ PlaceIn(r, M, s) = Len(list) + (n - Len(list)) - 1
                         /\ more[n - Len(list)] = ItemIn(r, s)
      BY <3>1 DEF ListsFrom
    <3>3. Len(list) + (n - Len(list)) - 1 = 0 + n - 1
      BY <1>1
    <3> QED
      BY <3>1, <3>2, <3>3
  <2> QED
    BY <2>1, <2>2
<1> QED
  BY <1>2, <1>3 DEF ListsFrom

StocksOf(list) == {list[n].stock : n \in DOMAIN list}

LEMMA ListsAreOfOnce ==
  ASSUME NEW r \in DayRows, NEW M \in SUBSET Ranked, NEW list, ListsFrom(r, M, 0, list)
  PROVE  /\ StocksOf(list) \subseteq M /\ Len(list) = Cardinality(StocksOf(list))
         /\ Len(list) >= Cardinality(M) => StocksOf(list) = M
         /\ \A n \in DOMAIN list : \E s \in M : list[n] = ItemIn(r, s)
<1> DEFINE stocks == {list[n].stock : n \in DOMAIN list}
           P == [n \in 1 .. Len(list) |-> list[n].stock]
<1>1. list \in Seq(Items) /\ DOMAIN list = 1 .. Len(list) /\ Len(list) \in Nat
  BY DEF ListsFrom
<1>2. \A n \in 1 .. Len(list) : /\ \E s \in M : list[n] = ItemIn(r, s)
                                 /\ list[n].stock \in M
                                 /\ PlaceIn(r, M, list[n].stock) = n - 1
  <2> TAKE n \in 1 .. Len(list)
  <2>1. PICK s \in M : PlaceIn(r, M, s) = 0 + n - 1 /\ list[n] = ItemIn(r, s)
    BY DEF ListsFrom
  <2>2. list[n].stock = s /\ 0 + n - 1 = n - 1
    BY <2>1 DEF ItemIn
  <2> QED
    BY <2>1, <2>2
<1>3. P \in Bijection(1 .. Len(list), stocks)
  <2>1. \A n \in 1 .. Len(list) : P[n] \in stocks
    BY <1>1
  <2>2. \A m, n \in 1 .. Len(list) : P[m] = P[n] => m = n
    BY <1>1, <1>2
  <2>3. \A t \in stocks : \E n \in 1 .. Len(list) : P[n] = t
    BY <1>1
  <2> QED
    BY <2>1, <2>2, <2>3 DEF Bijection, Injection, Surjection, IsInjective
<1>4. Cardinality(stocks) = Len(list)
  <2>1. /\ IsFiniteSet(1 .. Len(list))
        /\ Cardinality(1 .. Len(list)) = IF 1 > Len(list) THEN 0 ELSE Len(list) - 1 + 1
    BY <1>1, FS_Interval
  <2>2. ExistsBijection(1 .. Len(list), stocks)
    BY <1>3 DEF ExistsBijection
  <2> HIDE DEF P, stocks
  <2>3. Cardinality(stocks) = Cardinality(1 .. Len(list))
    BY <2>1, <2>2, FS_Bijection
  <2> QED
    BY <1>1, <2>1, <2>3
<1>5. stocks \subseteq M
  BY <1>1, <1>2
<1>6. ASSUME Len(list) >= Cardinality(M) PROVE M \subseteq stocks
  <2> SUFFICES ASSUME NEW s \in M PROVE s \in stocks
    OBVIOUS
  <2>1. PlaceIn(r, M, s) \in 0 .. Cardinality(M) - 1 /\ Cardinality(M) \in Nat
    BY PlacesFollowOrder, FiniteRanked
  <2> DEFINE n == PlaceIn(r, M, s) + 1
  <2>2. n \in 1 .. Len(list) /\ n - 1 = PlaceIn(r, M, s)
    BY <1>1, <1>6, <2>1
  <2> HIDE DEF n
  <2>3. list[n].stock = s
    BY <1>2, <2>2, PlacesAreOnce
  <2> QED
    BY <1>1, <2>2, <2>3
<1>7. StocksOf(list) = stocks
  BY DEF StocksOf
<1> HIDE DEF stocks
<1> QED
  BY <1>1, <1>2, <1>4, <1>5, <1>6, <1>7

\* The statements of the code in these terms.
LEMMA StatementsOfDay ==
  ASSUME NEW d \in RankDates, results[d] \in DayRows,
         NEW q, q.date = d, q.filter \in SUBSET Ranked, q.incomplete \in BOOLEAN
  PROVE  LET r == results[d]
             M == Asked(r, q.filter, q.incomplete)
         IN  /\ Rankable(d) = Complete(r) /\ Matching(q) = M /\ M \in SUBSET Ranked
             /\ \A s \in Ranked : RankOf(d, s, q.filter) = RankIn(r, s)
             /\ \A s \in Ranked : Place(q, s) = PlaceIn(r, M, s)
<1> DEFINE r == results[d]
           M == Asked(r, q.filter, q.incomplete)
<1>1. Rankable(d) = Complete(r)
  BY DEF Rankable, Complete
<1>2. M \in SUBSET Ranked
  BY DEF Asked
<1>3. Matching(q) = M
  <2>1. \A s \in Ranked : s \in RowsOf(d) <=> r[s] # NoReturn
    BY DEF RowsOf
  <2>2. \A s \in Ranked : r[s] # NoReturn <=> r[s] > Incomplete \/ r[s] = Incomplete
    <3> SUFFICES ASSUME NEW s \in Ranked
                 PROVE  r[s] # NoReturn <=> r[s] > Incomplete \/ r[s] = Incomplete
      OBVIOUS
    <3>1. r[s] \in Int /\ (r[s] = NoReturn \/ r[s] >= 0)
      BY RowsAreNumbers
    <3> QED
      BY <3>1 DEF NoReturn, Incomplete
  <2>3. \A s \in Ranked : s \in Complete(r) <=> r[s] > Incomplete
    BY DEF Complete
  <2>4. Matching(q) = RowsOf(d) \cap q.filter \cap (IF q.incomplete THEN Ranked ELSE Complete(r))
    BY <1>1 DEF Matching
  <2> HIDE DEF r
  <2> QED
    BY <2>1, <2>2, <2>3, <2>4 DEF Asked
<1>4. \A s, t \in Ranked : Better(d, s, t) <=> Ahead(r, s, t)
  BY DEF Better, Ahead
<1>5. \A s, t \in Ranked : PrecedesInPage(d, s, t) <=> ComesBefore(r, s, t)
  <2>1. \A s \in Ranked : s \in Complete(r) <=> r[s] > Incomplete
    BY DEF Complete
  <2> HIDE DEF r
  <2> QED
    BY <1>1, <1>4, <2>1 DEF PrecedesInPage, ComesBefore
<1>6. ASSUME NEW s \in Ranked PROVE RankOf(d, s, q.filter) = RankIn(r, s)
  <2>1. {t \in Rankable(d) : Better(d, t, s)} = {t \in Complete(r) : Ahead(r, t, s)}
    BY <1>1, <1>4 DEF Complete
  <2>2. s \in Rankable(d) <=> r[s] > Incomplete
    BY <1>1 DEF Complete
  <2> HIDE DEF r
  <2> QED
    BY <2>1, <2>2 DEF RankOf, RankIn
<1>7. ASSUME NEW s \in Ranked PROVE Place(q, s) = PlaceIn(r, M, s)
  <2>1. {t \in Matching(q) : PrecedesInPage(q.date, t, s)} = {t \in M : ComesBefore(r, t, s)}
    BY <1>2, <1>3, <1>5
  <2> HIDE DEF r, M
  <2> QED
    BY <2>1 DEF Place, PlaceIn
<1> QED
  BY <1>1, <1>2, <1>3, <1>6, <1>7

EndOfPage(offset, limit, total) == IF offset + limit <= total THEN offset + limit ELSE total

\* A page is the list from its offset on, as far as there are stocks.
LEMMA PageIsList ==
  ASSUME NEW d \in RankDates, results[d] \in DayRows,
         NEW q, q.date = d, q.filter \in SUBSET Ranked, q.incomplete \in BOOLEAN,
         q.offset \in Nat, q.limit \in Nat
  PROVE  LET r == results[d]
             M == Asked(r, q.filter, q.incomplete)
         IN  /\ ListsFrom(r, M, q.offset, PageOf(q)) /\ Len(PageOf(q)) <= q.limit
             /\ q.offset <= Cardinality(M) =>
                    q.offset + Len(PageOf(q)) = EndOfPage(q.offset, q.limit, Cardinality(M))
<1> DEFINE r == results[d]
           M == Asked(r, q.filter, q.incomplete)
           o == q.offset
           places == {n \in o .. o + q.limit - 1 : n < Cardinality(M)}
           k == Cardinality(places)
           At(n) == CHOOSE s \in M : PlaceIn(r, M, s) = o + n - 1
           page == [n \in 1 .. k |-> ItemIn(r, At(n))]
<1>1. /\ Rankable(d) = Complete(r) /\ Matching(q) = M /\ M \in SUBSET Ranked
      /\ \A s \in Ranked : RankOf(d, s, q.filter) = RankIn(r, s)
      /\ \A s \in Ranked : Place(q, s) = PlaceIn(r, M, s)
  BY StatementsOfDay
<1>2. Cardinality(M) \in Nat /\ o \in Nat /\ q.limit \in Nat
  BY <1>1, FiniteRanked
<1> HIDE DEF M, r, o
<1>3. places = o .. EndOfPage(o, q.limit, Cardinality(M)) - 1
  BY <1>2 DEF EndOfPage
<1>4. k = IF o > EndOfPage(o, q.limit, Cardinality(M)) - 1 THEN 0
          ELSE EndOfPage(o, q.limit, Cardinality(M)) - o
  <2>1. o \in Int /\ EndOfPage(o, q.limit, Cardinality(M)) - 1 \in Int
    BY <1>2 DEF EndOfPage
  <2> DEFINE e == EndOfPage(o, q.limit, Cardinality(M)) - 1
  <2>2. Cardinality(o .. e) = IF o > e THEN 0 ELSE e - o + 1
    BY <2>1, FS_Interval
  <2> HIDE DEF places
  <2> QED
    BY <1>2, <1>3, <2>1, <2>2 DEF EndOfPage
<1>5. k \in Nat /\ k <= q.limit /\ \A n \in 1 .. k : o + n - 1 \in 0 .. Cardinality(M) - 1
  <2> HIDE DEF k
  <2> QED
    BY <1>2, <1>4 DEF EndOfPage
<1>6. o <= Cardinality(M) => o + k = EndOfPage(o, q.limit, Cardinality(M))
  <2> HIDE DEF k
  <2> QED
    BY <1>2, <1>4 DEF EndOfPage
<1>7. \A n \in 1 .. k : At(n) \in M /\ PlaceIn(r, M, At(n)) = o + n - 1
  <2> HIDE DEF k
  <2> SUFFICES ASSUME NEW n \in 1 .. k PROVE \E s \in M : PlaceIn(r, M, s) = o + n - 1
    OBVIOUS
  <2> QED
    BY <1>1, <1>5, PlacesAreOnce DEF r
<1> HIDE DEF places
<1>8. PageOf(q) = page
  <2>1. PageOf(q) = [n \in 1 .. k |->
            LET s == CHOOSE s \in M : Place(q, s) = o + n - 1
            IN [stock |-> s, rank |-> RankOf(d, s, q.filter), return |-> r[s]]]
    BY <1>1 DEF PageOf, places, o, r
  <2>2. \A n \in 1 .. k : (CHOOSE s \in M : Place(q, s) = o + n - 1) = At(n)
    <3> TAKE n \in 1 .. k
    <3>1. \A s \in M : Place(q, s) = o + n - 1 <=> PlaceIn(r, M, s) = o + n - 1
      BY <1>1
    <3> QED
      BY <3>1
  <2> HIDE DEF k, At
  <2>3. \A n \in 1 .. k : RankOf(d, At(n), q.filter) = RankIn(r, At(n))
    BY <1>1, <1>7
  <2> QED
    BY <2>1, <2>2, <2>3 DEF ItemIn
<1> HIDE DEF k, At
<1>9. \A s \in M : ItemIn(r, s) \in Items
  <2> TAKE s \in M
  <2>1. s \in Ranked /\ RankIn(r, s) \in Nat /\ r[s] \in Int
    BY <1>1, RanksFollowOrder, RowsAreNumbers DEF r
  <2> QED
    BY <2>1 DEF ItemIn, Items
<1>10. page \in Seq(Items) /\ Len(page) = k
  <2>1. page \in [1 .. k -> Items]
    BY <1>7, <1>9
  <2> QED
    BY <1>5, <2>1
<1>11. ListsFrom(r, M, o, page)
  <2>1. ASSUME NEW n \in 1 .. k PROVE PlaceIn(r, M, At(n)) = o + n - 1 /\ page[n] = ItemIn(r, At(n))
    BY <1>7
  <2> HIDE DEF page
  <2> QED
    BY <1>7, <1>10, <2>1 DEF ListsFrom
<1> HIDE DEF page
<1>12. /\ ListsFrom(r, M, o, PageOf(q)) /\ Len(PageOf(q)) <= q.limit
       /\ o <= Cardinality(M) => o + Len(PageOf(q)) = EndOfPage(o, q.limit, Cardinality(M))
  BY <1>5, <1>6, <1>8, <1>10, <1>11
<1> QED
  BY <1>12 DEF M, r, o

-----------------------------------------------------------------------------
(* The invariant: what has been read and shown so far of a ranking whose rows *)
(* have not changed since its first page.                                     *)

RankingSteps == {"idle", "count", "page", "coverage", "answered"}
RankingQueries == [pc : RankingSteps, date : RankDates \cup {0}, filter : SUBSET Ranked,
                   incomplete : BOOLEAN, limit : Nat \ {0}, offset : Nat]
RankingAnswers == [total : 0 .. Cardinality(Ranked), items : Seq(Items),
                   universe : Nat, counted : Nat]

RankingTypes ==
    /\ results \in [RankDates -> DayRows] /\ newestDay \in RankDates
    /\ query \in RankingQueries /\ answer \in RankingAnswers /\ shown \in Seq(Items)
    /\ query.pc # "idle" => query.date \in RankDates
    /\ settled \in BOOLEAN /\ chunksSaved \in 0 .. MaxRankingSaves
    /\ Len(answer.items) <= query.limit /\ InRankOrder(answer.items)

\* The request q for the stocks M of the rows r, its answer a so far, and the list shown.
Fits(q, a, list, r, M) ==
    /\ q.pc \in {"page", "coverage", "answered"} => a.total = Cardinality(M)
    /\ q.pc \in {"count", "page", "coverage"} => Len(list) = q.offset
    /\ ListsFrom(r, M, 0, list) /\ q.offset <= Cardinality(M)
    /\ q.pc = "coverage" =>
        /\ ListsFrom(r, M, q.offset, a.items)
        /\ q.offset + Len(a.items) = EndOfPage(q.offset, q.limit, Cardinality(M))
    /\ q.pc = "answered" =>
        /\ Len(list) = EndOfPage(q.offset, q.limit, Cardinality(M))
        /\ Cardinality(Complete(r)) <= a.counted

PageFits ==
    (settled /\ query.pc # "idle") =>
        Fits(query, answer, shown, results[query.date],
             Asked(results[query.date], query.filter, query.incomplete))

RankingInvariant == RankingTypes /\ PageFits

LEMMA NoPages ==
    /\ NoQuery \in RankingQueries /\ NoAnswer \in RankingAnswers /\ <<>> \in Seq(Items)
    /\ Len(NoAnswer.items) = 0 /\ InRankOrder(NoAnswer.items)
    /\ NoQuery.pc = "idle" /\ NoQuery.date = 0 /\ NoQuery.offset = 0 /\ NoQuery.limit = 1
<1>1. Cardinality(Ranked) \in Nat
  BY FiniteRanked
<1>2. <<>> \in Seq(Items) /\ Len(<<>>) = 0 /\ DOMAIN <<>> = {}
  OBVIOUS
<1> QED
  BY <1>1, <1>2 DEF NoQuery, NoAnswer, RankingQueries, RankingAnswers, RankingSteps, InRankOrder

LEMMA RankingStarts == CRInit => RankingInvariant
<1> SUFFICES ASSUME CRInit PROVE RankingInvariant
  OBVIOUS
<1>1. /\ results \in [RankDates -> DayRows]
      /\ newestDay = 1 /\ query = NoQuery /\ answer = NoAnswer
      /\ shown = <<>> /\ settled = TRUE /\ chunksSaved = 0
  BY DEF CRInit, DayRows
<1>2. newestDay \in RankDates /\ chunksSaved \in 0 .. MaxRankingSaves
  BY <1>1, RankingLimits
<1> QED
  BY <1>1, <1>2, NoPages DEF RankingInvariant, RankingTypes, PageFits

LEMMA SaveResultsKeeps ==
  ASSUME RankingInvariant, NEW d \in RankDates, NEW chunk \in SUBSET Ranked,
         NEW new \in [chunk -> Returns], SaveResults(d, new)
  PROVE  RankingInvariant'
<1> DEFINE row == [s \in Ranked |-> IF s \in DOMAIN new THEN new[s] ELSE results[d][s]]
<1>1. /\ results \in [RankDates -> DayRows] /\ newestDay \in RankDates
      /\ query \in RankingQueries /\ settled \in BOOLEAN /\ chunksSaved \in 0 .. MaxRankingSaves
  BY DEF RankingInvariant, RankingTypes
<1>2. results' = [results EXCEPT ![d] = row]
  BY DEF SaveResults
<1>3. row \in DayRows
  <2>1. \A s \in Ranked : results[d][s] \in Returns \cup {NoReturn}
    BY <1>1 DEF DayRows
  <2>2. \A s \in DOMAIN new : new[s] \in Returns
    OBVIOUS
  <2> QED
    BY <2>1, <2>2 DEF DayRows
<1> HIDE DEF row
<1>4. results' \in [RankDates -> DayRows]
  BY <1>1, <1>2, <1>3
<1>5. newestDay' \in RankDates /\ settled' \in BOOLEAN
  BY <1>1 DEF SaveResults
<1>6. chunksSaved' \in 0 .. MaxRankingSaves
  BY <1>1, RankingLimits DEF SaveResults
<1>7. query' = query /\ answer' = answer /\ shown' = shown
  BY DEF SaveResults
<1>8. RankingTypes'
  BY <1>4, <1>5, <1>6, <1>7 DEF RankingInvariant, RankingTypes
<1>9. ASSUME settled', query.pc # "idle" PROVE PageFits'
  <2>1. settled /\ query.date # d /\ query.date \in RankDates
    BY <1>9 DEF SaveResults, RankingInvariant, RankingTypes
  <2>2. results'[query.date] = results[query.date]
    BY <1>1, <1>2, <2>1
  <2>3. Fits(query, answer, shown, results[query.date],
             Asked(results[query.date], query.filter, query.incomplete))
    BY <1>9, <2>1 DEF RankingInvariant, PageFits
  <2> QED
    BY <1>7, <2>2, <2>3 DEF PageFits
<1> QED
  BY <1>7, <1>8, <1>9 DEF RankingInvariant, PageFits

\* The list of nothing is the list of no places.
LEMMA EmptyList ==
  ASSUME NEW r, NEW M
  PROVE  ListsFrom(r, M, 0, <<>>) /\ Len(<<>>) = 0
BY DEF ListsFrom

LEMMA FirstPageKeeps ==
  ASSUME RankingInvariant, NEW filter \in Filters, NEW incomplete \in BOOLEAN,
         NEW limit \in Limits, NEW date \in RankDates \cup {0},
         FirstPage(filter, incomplete, limit, date)
  PROVE  RankingInvariant'
<1>1. results \in [RankDates -> DayRows] /\ newestDay \in RankDates
  BY DEF RankingInvariant, RankingTypes
<1>2. PICK e : e = IF date = 0 THEN newestDay ELSE date
  OBVIOUS
<1>3. e \in RankDates /\ filter \in SUBSET Ranked /\ limit \in Nat \ {0}
  BY <1>1, <1>2, RankingLimits
<1>4. query' = [pc |-> "count", date |-> e, filter |-> filter, incomplete |-> incomplete,
                limit |-> limit, offset |-> 0]
  BY <1>2 DEF FirstPage, Request, NoQuery
<1>5. answer' = NoAnswer /\ shown' = <<>> /\ settled' = TRUE
  BY DEF FirstPage, Request
<1>6. results' = results /\ newestDay' = newestDay /\ chunksSaved' = chunksSaved
  BY DEF FirstPage
<1>7. query' \in RankingQueries /\ query'.date \in RankDates /\ 0 <= query'.limit
  BY <1>3, <1>4 DEF RankingQueries, RankingSteps
<1>8. RankingTypes'
  BY <1>5, <1>6, <1>7, NoPages DEF RankingInvariant, RankingTypes
<1>9. PICK r : r = results[e]
  OBVIOUS
<1>10. PICK M : M = Asked(r, filter, incomplete)
  OBVIOUS
<1>11. M \in SUBSET Ranked /\ Cardinality(M) \in Nat
  <2>1. M \in SUBSET Ranked
    BY <1>3, <1>10 DEF Asked
  <2> QED
    BY <2>1, FiniteRanked
<1>12. Fits(query', answer', shown', r, M)
  BY <1>4, <1>5, <1>11, EmptyList DEF Fits
<1>13. PageFits'
  BY <1>4, <1>6, <1>9, <1>10, <1>12 DEF PageFits
<1> QED
  BY <1>8, <1>13 DEF RankingInvariant

\* What a settled request is about.
LEMMA SettledRequest ==
  ASSUME RankingInvariant, settled, query.pc # "idle"
  PROVE  \E r \in DayRows, M \in SUBSET Ranked :
            /\ query.date \in RankDates /\ r = results[query.date]
            /\ M = Asked(r, query.filter, query.incomplete) /\ Cardinality(M) \in Nat
            /\ Fits(query, answer, shown, r, M)
<1>1. query.date \in RankDates /\ results[query.date] \in DayRows /\ query.filter \in SUBSET Ranked
  BY DEF RankingInvariant, RankingTypes, RankingQueries
<1>2. PICK r : r = results[query.date]
  OBVIOUS
<1>3. PICK M : M = Asked(r, query.filter, query.incomplete)
  OBVIOUS
<1>4. M \in SUBSET Ranked
  BY <1>1, <1>3 DEF Asked
<1>5. Cardinality(M) \in Nat
  BY <1>4, FiniteRanked
<1>6. Fits(query, answer, shown, r, M)
  BY <1>2, <1>3 DEF RankingInvariant, PageFits
<1> QED
  BY <1>1, <1>2, <1>3, <1>4, <1>5, <1>6

LEMMA FollowingPageKeeps ==
  ASSUME RankingInvariant, NEW date \in {query.date, 0}, FollowingPage(date)
  PROVE  RankingInvariant'
<1>1. /\ results \in [RankDates -> DayRows] /\ newestDay \in RankDates
      /\ query \in RankingQueries /\ query.date \in RankDates /\ shown \in Seq(Items)
      /\ settled \in BOOLEAN /\ query.pc = "answered"
  BY DEF RankingInvariant, RankingTypes, FollowingPage
<1>2. PICK e : e = IF date = 0 THEN newestDay ELSE date
  OBVIOUS
<1>3. e \in RankDates
  BY <1>1, <1>2, RankingLimits
<1>4. PICK q : q = [query EXCEPT !.pc = "count", !.date = e, !.offset = query.offset + query.limit]
  OBVIOUS
<1>5. query' = q
  <2>1. query' = [[query EXCEPT !.offset = query.offset + query.limit] EXCEPT
                    !.pc = "count", !.date = e]
    BY <1>2 DEF FollowingPage, Request
  <2> QED
    BY <1>1, <1>4, <2>1 DEF RankingQueries
<1>6. query.offset + query.limit \in Nat /\ query.limit \in Nat /\ query.offset \in Nat
  BY <1>1 DEF RankingQueries
<1>7. q \in RankingQueries
  BY <1>1, <1>3, <1>4, <1>6 DEF RankingQueries, RankingSteps
<1>8. /\ q.pc = "count" /\ q.date = e /\ q.offset = query.offset + query.limit
      /\ q.filter = query.filter /\ q.incomplete = query.incomplete /\ q.limit = query.limit
  BY <1>1, <1>4 DEF RankingQueries
<1>9. answer' = NoAnswer
  BY DEF FollowingPage, Request
<1>10. /\ settled' = (settled /\ query'.date = query.date)
       /\ results' = results /\ newestDay' = newestDay /\ shown' = shown
       /\ chunksSaved' = chunksSaved
  BY DEF FollowingPage
<1>11. RankingTypes'
  <2>1. 0 <= q.limit /\ settled' \in BOOLEAN
    BY <1>1, <1>6, <1>8, <1>10
  <2> QED
    BY <1>3, <1>5, <1>7, <1>8, <1>9, <1>10, <2>1, NoPages DEF RankingInvariant, RankingTypes
<1>12. ASSUME settled' PROVE PageFits'
  <2>1. settled /\ e = query.date
    BY <1>5, <1>8, <1>10, <1>12
  <2>2. PICK r \in DayRows, M \in SUBSET Ranked :
            /\ query.date \in RankDates /\ r = results[query.date]
            /\ M = Asked(r, query.filter, query.incomplete) /\ Cardinality(M) \in Nat
            /\ Fits(query, answer, shown, r, M)
    BY <1>1, <2>1, SettledRequest
  <2>3. query.offset + query.limit < Cardinality(M)
    BY <1>1, <2>2 DEF Fits, FollowingPage
  <2>4. Len(shown) = q.offset /\ q.offset <= Cardinality(M) /\ ListsFrom(r, M, 0, shown)
    <3>1. Len(shown) = EndOfPage(query.offset, query.limit, Cardinality(M))
      BY <1>1, <2>2 DEF Fits
    <3>2. EndOfPage(query.offset, query.limit, Cardinality(M)) = query.offset + query.limit
      BY <1>6, <2>2, <2>3 DEF EndOfPage
    <3>3. ListsFrom(r, M, 0, shown)
      BY <2>2 DEF Fits
    <3>4. query.offset + query.limit <= Cardinality(M)
      BY <1>6, <2>2, <2>3
    <3> QED
      BY <1>8, <3>1, <3>2, <3>3, <3>4
  <2>5. Fits(q, answer', shown, r, M)
    BY <1>8, <2>4 DEF Fits
  <2>6. results'[q.date] = r /\ M = Asked(r, q.filter, q.incomplete)
    BY <1>8, <1>10, <2>1, <2>2
  <2> QED
    BY <1>5, <1>10, <2>5, <2>6 DEF PageFits
<1> QED
  BY <1>11, <1>12 DEF RankingInvariant, PageFits

LEMMA CountMatchingKeeps == RankingInvariant /\ CountMatching => RankingInvariant'
<1> SUFFICES ASSUME RankingInvariant, CountMatching PROVE RankingInvariant'
  OBVIOUS
<1>1. /\ results \in [RankDates -> DayRows] /\ query \in RankingQueries
      /\ query.date \in RankDates /\ answer \in RankingAnswers /\ query.pc = "count"
  BY DEF RankingInvariant, RankingTypes, CountMatching
<1>2. PICK M : M = Asked(results[query.date], query.filter, query.incomplete)
  OBVIOUS
<1>3. Matching(query) = M /\ M \in SUBSET Ranked
  BY <1>1, <1>2, StatementsOfDay DEF RankingQueries
<1>4. Cardinality(M) \in 0 .. Cardinality(Ranked)
  <2>1. Cardinality(M) \in Nat /\ Cardinality(Ranked) \in Nat
    BY <1>3, FiniteRanked
  <2>2. Cardinality(M) <= Cardinality(Ranked)
    BY <1>3, RankingLimits, FS_Subset
  <2> QED
    BY <2>1, <2>2
<1>5. PICK a : a = [answer EXCEPT !.total = Cardinality(M)]
  OBVIOUS
<1>6. PICK q : q = [query EXCEPT !.pc = "page"]
  OBVIOUS
<1>7. a \in RankingAnswers /\ a.total = Cardinality(M) /\ a.items = answer.items
  BY <1>1, <1>4, <1>5 DEF RankingAnswers
<1>8. q \in RankingQueries
  BY <1>1, <1>6 DEF RankingQueries, RankingSteps
<1>9. /\ q.pc = "page" /\ q.date = query.date /\ q.offset = query.offset
      /\ q.filter = query.filter /\ q.incomplete = query.incomplete /\ q.limit = query.limit
  BY <1>1, <1>6 DEF RankingQueries
<1>10. query' = q /\ answer' = a
  BY <1>3, <1>5, <1>6 DEF CountMatching
<1>11. /\ results' = results /\ newestDay' = newestDay /\ shown' = shown /\ settled' = settled
       /\ chunksSaved' = chunksSaved
  BY DEF CountMatching
<1>12. RankingTypes'
  BY <1>1, <1>7, <1>8, <1>9, <1>10, <1>11 DEF RankingInvariant, RankingTypes
<1>13. ASSUME settled PROVE PageFits'
  <2>1. PICK r \in DayRows, N \in SUBSET Ranked :
            /\ query.date \in RankDates /\ r = results[query.date]
            /\ N = Asked(r, query.filter, query.incomplete) /\ Cardinality(N) \in Nat
            /\ Fits(query, answer, shown, r, N)
    BY <1>1, <1>13, SettledRequest
  <2>2. N = M
    BY <1>2, <2>1
  <2>3. Len(shown) = query.offset /\ ListsFrom(r, M, 0, shown) /\ query.offset <= Cardinality(M)
    BY <1>1, <2>1, <2>2 DEF Fits
  <2>4. Fits(q, a, shown, r, M)
    BY <1>7, <1>9, <2>3 DEF Fits
  <2> QED
    BY <1>9, <1>10, <1>11, <2>1, <2>2, <2>4 DEF PageFits
<1> QED
  BY <1>11, <1>12, <1>13 DEF RankingInvariant, PageFits

LEMMA SelectPageKeeps == RankingInvariant /\ SelectPage => RankingInvariant'
<1> SUFFICES ASSUME RankingInvariant, SelectPage PROVE RankingInvariant'
  OBVIOUS
<1>1. /\ results \in [RankDates -> DayRows] /\ query \in RankingQueries
      /\ query.date \in RankDates /\ answer \in RankingAnswers /\ query.pc = "page"
  BY DEF RankingInvariant, RankingTypes, SelectPage
<1>2. PICK row \in DayRows : row = results[query.date]
  BY <1>1
<1>3. PICK M : M = Asked(row, query.filter, query.incomplete)
  OBVIOUS
<1>4. query.offset \in Nat /\ query.limit \in Nat /\ query.filter \in SUBSET Ranked
      /\ query.incomplete \in BOOLEAN /\ M \in SUBSET Ranked
  BY <1>1, <1>3 DEF RankingQueries, Asked
<1>5. PICK page : page = PageOf(query)
  OBVIOUS
<1>6. /\ ListsFrom(row, M, query.offset, page) /\ Len(page) <= query.limit
      /\ query.offset <= Cardinality(M) =>
            query.offset + Len(page) = EndOfPage(query.offset, query.limit, Cardinality(M))
  BY <1>1, <1>2, <1>3, <1>4, <1>5, PageIsList
<1>7. page \in Seq(Items) /\ InRankOrder(page)
  BY <1>4, <1>6, ListsAreInOrder DEF ListsFrom
<1>8. PICK a : a = [answer EXCEPT !.items = page]
  OBVIOUS
<1>9. PICK q : q = [query EXCEPT !.pc = "coverage"]
  OBVIOUS
<1>10. a \in RankingAnswers /\ a.total = answer.total /\ a.items = page
  BY <1>1, <1>7, <1>8 DEF RankingAnswers
<1>11. q \in RankingQueries
  BY <1>1, <1>9 DEF RankingQueries, RankingSteps
<1>12. /\ q.pc = "coverage" /\ q.date = query.date /\ q.offset = query.offset
       /\ q.filter = query.filter /\ q.incomplete = query.incomplete /\ q.limit = query.limit
  BY <1>1, <1>9 DEF RankingQueries
<1>13. query' = q /\ answer' = a
  BY <1>5, <1>8, <1>9 DEF SelectPage
<1>14. /\ results' = results /\ newestDay' = newestDay /\ shown' = shown /\ settled' = settled
       /\ chunksSaved' = chunksSaved
  BY DEF SelectPage
<1>15. RankingTypes'
  BY <1>1, <1>6, <1>7, <1>10, <1>11, <1>12, <1>13, <1>14 DEF RankingInvariant, RankingTypes
<1>16. ASSUME settled PROVE PageFits'
  <2>1. PICK r \in DayRows, N \in SUBSET Ranked :
            /\ query.date \in RankDates /\ r = results[query.date]
            /\ N = Asked(r, query.filter, query.incomplete) /\ Cardinality(N) \in Nat
            /\ Fits(query, answer, shown, r, N)
    BY <1>1, <1>16, SettledRequest
  <2>2. r = row /\ N = M
    BY <1>2, <1>3, <2>1
  <2>3. /\ Len(shown) = query.offset /\ ListsFrom(row, M, 0, shown)
        /\ query.offset <= Cardinality(M) /\ answer.total = Cardinality(M)
    BY <1>1, <2>1, <2>2 DEF Fits
  <2>4. Fits(q, a, shown, row, M)
    BY <1>6, <1>10, <1>12, <2>3 DEF Fits
  <2> QED
    BY <1>2, <1>3, <1>12, <1>13, <1>14, <2>4 DEF PageFits
<1> QED
  BY <1>14, <1>15, <1>16 DEF RankingInvariant, PageFits

LEMMA FetchCoverageKeeps == RankingInvariant /\ FetchCoverage => RankingInvariant'
<1> SUFFICES ASSUME RankingInvariant, FetchCoverage PROVE RankingInvariant'
  OBVIOUS
<1>1. /\ results \in [RankDates -> DayRows] /\ query \in RankingQueries
      /\ query.date \in RankDates /\ answer \in RankingAnswers /\ query.pc = "coverage"
      /\ shown \in Seq(Items) /\ answer.items \in Seq(Items)
  BY DEF RankingInvariant, RankingTypes, FetchCoverage, RankingAnswers
<1>2. PICK row \in DayRows : row = results[query.date]
  BY <1>1
<1>3. PICK M : M = Asked(row, query.filter, query.incomplete)
  OBVIOUS
<1>4. PICK u, c : /\ u = Cardinality(RowsOf(query.date))
                  /\ c \in Cardinality(Rankable(query.date)) .. u
                  /\ answer' = [answer EXCEPT !.universe = u, !.counted = c]
  BY DEF FetchCoverage
<1>5. Rankable(query.date) = Complete(row)
  BY <1>2 DEF Rankable, Complete
<1>6. u \in Nat /\ c \in Nat /\ Cardinality(Complete(row)) \in Nat /\ Cardinality(Complete(row)) <= c
  <2>1. RowsOf(query.date) \in SUBSET Ranked /\ Rankable(query.date) \in SUBSET Ranked
    BY DEF RowsOf, Rankable
  <2> QED
    BY <1>4, <1>5, <2>1, FiniteRanked
<1>7. PICK a : a = [answer EXCEPT !.universe = u, !.counted = c]
  OBVIOUS
<1>8. PICK q : q = [query EXCEPT !.pc = "answered"]
  OBVIOUS
<1>9. a \in RankingAnswers
  BY <1>1, <1>6, <1>7 DEF RankingAnswers
<1>10. a.total = answer.total /\ a.items = answer.items /\ a.counted = c
  BY <1>1, <1>7 DEF RankingAnswers
<1>11. q \in RankingQueries
  BY <1>1, <1>8 DEF RankingQueries, RankingSteps
<1>12. /\ q.pc = "answered" /\ q.date = query.date /\ q.offset = query.offset
       /\ q.filter = query.filter /\ q.incomplete = query.incomplete /\ q.limit = query.limit
  BY <1>1, <1>8 DEF RankingQueries
<1>13. query' = q /\ answer' = a /\ shown' = shown \o answer.items
  BY <1>4, <1>7, <1>8 DEF FetchCoverage
<1>14. /\ results' = results /\ newestDay' = newestDay /\ settled' = settled
       /\ chunksSaved' = chunksSaved
  BY DEF FetchCoverage
<1>15. shown \o answer.items \in Seq(Items)
  BY <1>1
<1>16. RankingTypes'
  BY <1>1, <1>9, <1>10, <1>11, <1>12, <1>13, <1>14, <1>15 DEF RankingInvariant, RankingTypes
<1>17. ASSUME settled PROVE PageFits'
  <2>1. PICK r \in DayRows, N \in SUBSET Ranked :
            /\ query.date \in RankDates /\ r = results[query.date]
            /\ N = Asked(r, query.filter, query.incomplete) /\ Cardinality(N) \in Nat
            /\ Fits(query, answer, shown, r, N)
    BY <1>1, <1>17, SettledRequest
  <2>2. r = row /\ N = M
    BY <1>2, <1>3, <2>1
  <2>3. /\ Len(shown) = query.offset /\ ListsFrom(row, M, 0, shown)
        /\ query.offset <= Cardinality(M) /\ answer.total = Cardinality(M)
        /\ ListsFrom(row, M, query.offset, answer.items)
        /\ query.offset + Len(answer.items) = EndOfPage(query.offset, query.limit, Cardinality(M))
    BY <1>1, <2>1, <2>2 DEF Fits
  <2>4. /\ ListsFrom(row, M, 0, shown \o answer.items)
        /\ Len(shown \o answer.items) = Len(shown) + Len(answer.items)
    BY <2>1, <2>2, <2>3, ListsAddUp
  <2>5. Fits(q, a, shown \o answer.items, row, M)
    BY <1>6, <1>10, <1>12, <2>3, <2>4 DEF Fits
  <2> QED
    BY <1>2, <1>3, <1>12, <1>13, <1>14, <2>5 DEF PageFits
<1> QED
  BY <1>14, <1>16, <1>17 DEF RankingInvariant, PageFits

LEMMA QueryFailsKeeps == RankingInvariant /\ QueryFails => RankingInvariant'
<1> SUFFICES ASSUME RankingInvariant, QueryFails PROVE RankingInvariant'
  OBVIOUS
<1>1. /\ query' = NoQuery /\ answer' = NoAnswer /\ shown' = <<>> /\ settled' = TRUE
      /\ results' = results /\ newestDay' = newestDay /\ chunksSaved' = chunksSaved
  BY DEF QueryFails
<1> QED
  BY <1>1, NoPages DEF RankingInvariant, RankingTypes, PageFits

LEMMA RankingInvariantKept == CRSpec => []RankingInvariant
<1>1. RankingInvariant /\ [CRNext]_crVars => RankingInvariant'
  <2> SUFFICES ASSUME RankingInvariant, [CRNext]_crVars PROVE RankingInvariant'
    OBVIOUS
  <2>1. CASE UNCHANGED crVars
    BY <2>1 DEF crVars, RankingInvariant, RankingTypes, PageFits
  <2>2. CASE \E d \in RankDates, chunk \in SUBSET Ranked :
                \E new \in [chunk -> Returns] : SaveResults(d, new)
    BY <2>2, SaveResultsKeeps
  <2>3. CASE \E f \in Filters, i \in BOOLEAN, l \in Limits, d \in RankDates \cup {0} :
                FirstPage(f, i, l, d)
    BY <2>3, FirstPageKeeps
  <2>4. CASE \E d \in {query.date, 0} : FollowingPage(d)
    BY <2>4, FollowingPageKeeps
  <2>5. CASE CountMatching
    BY <2>5, CountMatchingKeeps
  <2>6. CASE SelectPage
    BY <2>6, SelectPageKeeps
  <2>7. CASE FetchCoverage
    BY <2>7, FetchCoverageKeeps
  <2>8. CASE QueryFails
    BY <2>8, QueryFailsKeeps
  <2> QED
    BY <2>1, <2>2, <2>3, <2>4, <2>5, <2>6, <2>7, <2>8 DEF CRNext
<1> QED
  BY <1>1, RankingStarts, PTL DEF CRSpec

\* Type correctness of the ranking: a page has no more items than were asked for, and the
\* count of the matching stocks never exceeds the number of stocks (fetch_ranking_page).
THEOREM RankingTypeCorrect == CRSpec => []CRTypeOK
<1>1. RankingInvariant => CRTypeOK
  BY DEF RankingInvariant, RankingTypes, CRTypeOK, DayRows, RankingQueries, RankingAnswers,
         RankingSteps
<1> QED
  BY <1>1, RankingInvariantKept, PTL

\* The list shown to a client who asked for the stocks M of the rows r, and has read up to
\* the page q, answered by a.
AheadOf(r, s) == {t \in Ranked : r[t] > r[s] \/ (r[t] = r[s] /\ t < s)}
IsRankingOf(r, M, q, a, list) ==
    /\ InRankOrder(list)
    /\ StocksOf(list) \subseteq M /\ Len(list) = Cardinality(StocksOf(list))
    /\ q.offset + q.limit >= a.total => StocksOf(list) = M
    /\ a.total = Cardinality(M)
    /\ \A n \in DOMAIN list :
            /\ list[n].return = r[list[n].stock] /\ list[n].rank <= a.counted
            /\ list[n].rank = IF list[n].return = Incomplete THEN 0
                              ELSE 1 + Cardinality(AheadOf(r, list[n].stock))

LEMMA RanksOfAsked ==
  ASSUME NEW r \in DayRows, NEW s \in Ranked, r[s] > Incomplete \/ r[s] = Incomplete
  PROVE  /\ RankIn(r, s) <= Cardinality(Complete(r))
         /\ RankIn(r, s) = IF r[s] = Incomplete THEN 0 ELSE 1 + Cardinality(AheadOf(r, s))
<1>1. RankIn(r, s) <= Cardinality(Complete(r))
  BY RanksFollowOrder
<1>2. CASE r[s] = Incomplete
  BY <1>1, <1>2 DEF RankIn, Incomplete
<1>3. CASE r[s] > Incomplete
  <2>1. \A t \in Ranked : r[t] \in Int /\ r[s] \in Int
    BY RowsAreNumbers
  <2>2. /\ r[s] # Incomplete
        /\ \A t \in Ranked : r[t] > r[s] \/ r[t] = r[s] => r[t] > Incomplete
    BY <1>3, <2>1 DEF Incomplete
  <2>3. AheadOf(r, s) = {t \in Complete(r) : Ahead(r, t, s)}
    BY <2>2 DEF Complete, Ahead, AheadOf
  <2> QED
    BY <1>1, <1>3, <2>2, <2>3 DEF RankIn
<1> QED
  BY <1>2, <1>3

LEMMA AnsweredRanking ==
  ASSUME RankingInvariant, settled, query.pc = "answered"
  PROVE  IsRankingOf(results[query.date],
                     Asked(results[query.date], query.filter, query.incomplete),
                     query, answer, shown)
<1>1. PICK r \in DayRows, M \in SUBSET Ranked :
        /\ query.date \in RankDates /\ r = results[query.date]
        /\ M = Asked(r, query.filter, query.incomplete) /\ Cardinality(M) \in Nat
        /\ Fits(query, answer, shown, r, M)
  BY SettledRequest
<1>2. /\ answer.total = Cardinality(M) /\ ListsFrom(r, M, 0, shown)
      /\ Len(shown) = EndOfPage(query.offset, query.limit, Cardinality(M))
      /\ Cardinality(Complete(r)) <= answer.counted
  BY <1>1 DEF Fits
<1>3. query.offset \in Nat /\ query.limit \in Nat
  BY DEF RankingInvariant, RankingTypes, RankingQueries
<1>4. /\ StocksOf(shown) \subseteq M /\ Len(shown) = Cardinality(StocksOf(shown))
      /\ Len(shown) >= Cardinality(M) => StocksOf(shown) = M
      /\ \A n \in DOMAIN shown : \E s \in M : shown[n] = ItemIn(r, s)
  BY <1>2, ListsAreOfOnce
<1>5. InRankOrder(shown)
  BY <1>2, ListsAreInOrder
<1>6. query.offset + query.limit >= answer.total => StocksOf(shown) = M
  <2>1. query.offset + query.limit >= Cardinality(M) => Len(shown) >= Cardinality(M)
    BY <1>1, <1>2, <1>3 DEF EndOfPage
  <2> QED
    BY <1>2, <1>4, <2>1
<1>7. ASSUME NEW n \in DOMAIN shown
      PROVE  /\ shown[n].return = r[shown[n].stock] /\ shown[n].rank <= answer.counted
             /\ shown[n].rank = IF shown[n].return = Incomplete THEN 0
                                ELSE 1 + Cardinality(AheadOf(r, shown[n].stock))
  <2>1. PICK s \in M : shown[n] = ItemIn(r, s)
    BY <1>4
  <2>2. shown[n].stock = s /\ shown[n].rank = RankIn(r, s) /\ shown[n].return = r[s]
    BY <2>1 DEF ItemIn
  <2>3. s \in Ranked /\ (r[s] > Incomplete \/ r[s] = Incomplete)
    BY <1>1 DEF Asked
  <2>4. RankIn(r, s) <= Cardinality(Complete(r)) /\ RankIn(r, s) \in Nat
    BY <2>3, RanksOfAsked, RanksFollowOrder
  <2>5. Cardinality(Complete(r)) \in Nat /\ answer.counted \in Nat
    <3>1. Complete(r) \in SUBSET Ranked
      BY DEF Complete
    <3> QED
      BY <3>1, FiniteRanked DEF RankingInvariant, RankingTypes, RankingAnswers
  <2>6. RankIn(r, s) <= answer.counted
    BY <1>2, <2>4, <2>5
  <2> QED
    BY <1>2, <2>2, <2>3, <2>6, RanksOfAsked
<1>8. IsRankingOf(r, M, query, answer, shown)
  BY <1>2, <1>4, <1>5, <1>6, <1>7 DEF IsRankingOf
<1> QED
  BY <1>1, <1>8

\* The pages a client reads one after the other make up one ranking: for any stocks,
\* filter and size of a page, in any interleaving with the saving of other rows, every
\* stock asked for is listed once, in the order of its rank among all of that day
\* (fetch_ranking_page: COUNT, ROW_NUMBER before the filter, LIMIT and OFFSET).
THEOREM PagesAreOneRanking == CRSpec => []PagesMakeOneRanking
<1>1. RankingInvariant => InRankOrder(answer.items)
  BY DEF RankingInvariant, RankingTypes
<1>2. RankingInvariant => PagesMakeOneRanking
  BY <1>1, AnsweredRanking
     DEF PagesMakeOneRanking, IsRankingOf, Asked, AheadOf, StocksOf
<1> QED
  BY <1>2, RankingInvariantKept, PTL

-----------------------------------------------------------------------------
(* The six components side by side, as the run has them.                   *)

\* Whichever component runs while the others rest, each of them follows its specification,
\* and so what is proved of it holds of the run.
THEOREM ComponentsRun ==
  Spec => SPSpec /\ SCSpec /\ SRSpec /\ LWSpec /\ HCSpec /\ CRSpec
<1>1. Init => SPInit /\ SCInit /\ SRInit /\ LWInit /\ HCInit /\ CRInit
  BY DEF Init
<1>2. [Next]_vars => /\ [SPNext]_spVars /\ [SCNext]_scVars /\ [SRNext]_srVars
                     /\ [LWNext]_lwVars /\ [HCNext]_hcVars /\ [CRNext]_crVars
  BY DEF Next, vars
<1> QED
  BY <1>1, <1>2, PTL DEF Spec, SPSpec, SCSpec, SRSpec, LWSpec, HCSpec, CRSpec

\* The components have the types they are given, with what each of them relies on.
THEOREM InfrastructureTypesCorrect == Spec => []InfrastructureTypes
<1>1. /\ SPTypeOK /\ SCTypeOK /\ SRTypeOK /\ LWTypeOK /\ HCTypeOK /\ CRTypeOK
      => InfrastructureTypes
  BY DEF InfrastructureTypes
<1> QED
  BY <1>1, ComponentsRun, PoolTypeCorrect, SnapshotsTypeCorrect, RegistryTypeCorrect,
     LogTypeCorrect, RequestTypesCorrect, RankingTypeCorrect, PTL

\* All that the run checks of the six components holds for every value of the constants.
THEOREM InfrastructureIsSound ==
  Spec => /\ [](EverySiteIsTried /\ SavesReachEveryone /\ LinesAreAccounted /\ PagesMakeOneRanking)
          /\ SnapshotsAreKept /\ DelistedStayGone /\ OneAlertPerRefusal
<1>1. Spec => []EverySiteIsTried /\ []SavesReachEveryone /\ []LinesAreAccounted /\ []PagesMakeOneRanking
  BY ComponentsRun, EverySiteGetsItsTurn, SavesReach, EveryLineIsAccounted, PagesAreOneRanking
<1>2. Spec => SnapshotsAreKept /\ DelistedStayGone /\ OneAlertPerRefusal
  BY ComponentsRun, SnapshotsKept, DelistedStayMarked, RefusalsAreAlertedOnce
<1> QED
  BY <1>1, <1>2, PTL
=============================================================================
