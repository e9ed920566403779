---------------------------- MODULE HttpClient ----------------------------
(* The requests of src/core/util/http/mod.rs and the alerts they cause. All  *)
(* requests share a few permits, which they hold only while they are on the  *)
(* wire; network failures and answers of status 429 are retried after a      *)
(* pause. An answer of status 403 to a crawler sends an alert through        *)
(* Telegram (core/alert.rs, interfaces/bot/telegram.rs), whose requests take *)
(* the same way: one to each recipient at the same time, and all again as    *)
(* plain text when none was accepted.                                        *)
(* Abstracted: lengths of pauses, bodies, the parts of a long message. Each  *)
(* crawler makes one request.                                                *)
EXTENDS Integers, FiniteSets

CONSTANTS
    Crawlers,
    Recipients,             \* SETTINGS.bot.telegram.allowed
    Permits,                \* SEMAPHORE: the program has 5
    MaxNetworkRetries,      \* sends that may fail, not repeats: see SendFails
    MaxRateLimitRetries

ASSUME HttpAssumption ==
    /\ {Permits, MaxNetworkRetries} \subseteq Nat \ {0}
    /\ MaxRateLimitRetries \in Nat
    /\ Recipients # {}
    /\ Crawlers \cap (Crawlers \X Recipients) = {}

Alerts == Crawlers \X Recipients    \* the request of the alert of c to a recipient
Requests == Crawlers \cup Alerts
IsTelegram(r) == r \in Alerts

Ended == {"ok", "refused", "err"}

VARIABLES
    stage,      \* stage[r]: where the request is
    failures,   \* network_attempt: its sends that have failed
    limited,    \* rate_limit_attempt: its answers of status 429
    message,    \* message[c]: the form in which the alert of c is being sent
    alerts,     \* alerts begun
    forbidden,  \* ghost: answers of status 403 to crawlers
    copies,     \* ghost: how often a recipient has received the alert
    accepted    \* ghost: the requests of alerts that Telegram has confirmed

hcVars == <<stage, failures, limited, message, alerts, forbidden, copies, accepted>>

OnWire == {r \in Requests : stage[r] = "wire"}

HCInit ==
    /\ stage = [r \in Requests |-> "off"]
    /\ failures = [r \in Requests |-> 0] /\ limited = failures
    /\ message = [c \in Crawlers |-> "none"]
    /\ alerts = 0 /\ forbidden = 0
    /\ copies = [m \in Alerts |-> 0]
    /\ accepted = {}

(* send_with_client is called.                                               *)
CallSend(c) ==
    /\ stage[c] = "off"
    /\ stage' = [stage EXCEPT ![c] = "ready"]
    /\ UNCHANGED <<failures, limited, message, alerts, forbidden, copies, accepted>>

(* SEMAPHORE.acquire; the permit is held until the send returns.             *)
Acquire(r) ==
    /\ stage[r] = "ready"
    /\ Cardinality(OnWire) < Permits
    /\ stage' = [stage EXCEPT ![r] = "wire"]
    /\ UNCHANGED <<failures, limited, message, alerts, forbidden, copies, accepted>>

(* What a recipient has received when the send of r returns.                 *)
Received(r, arrived) ==
    copies' = IF arrived /\ IsTelegram(r) THEN [copies EXCEPT ![r] = @ + 1] ELSE copies

(* The network fails, before or after the request has arrived: the third     *)
(* failure is final, so a request is repeated twice.                         *)
SendFails(r, arrived) ==
    /\ stage[r] = "wire"
    /\ failures' = [failures EXCEPT ![r] = @ + 1]
    /\ stage' = [stage EXCEPT ![r] = IF failures'[r] >= MaxNetworkRetries THEN "err" ELSE "pause"]
    /\ Received(r, arrived)
    /\ UNCHANGED <<limited, message, alerts, forbidden, accepted>>

(* Status 429 to a crawler; to Telegram it is an answer like others.         *)
RateLimited(r) ==
    /\ stage[r] = "wire" /\ ~IsTelegram(r)
    /\ limited' = [limited EXCEPT ![r] = @ + 1]
    /\ stage' = [stage EXCEPT ![r] = IF limited'[r] <= MaxRateLimitRetries THEN "pause" ELSE "err"]
    /\ UNCHANGED <<failures, message, alerts, forbidden, copies, accepted>>

(* The pause after a failure is over.                                        *)
Resume(r) ==
    /\ stage[r] = "pause"
    /\ stage' = [stage EXCEPT ![r] = "ready"]
    /\ UNCHANGED <<failures, limited, message, alerts, forbidden, copies, accepted>>

(* The requests of an alert in one of its two forms, all at once, are new.   *)
WithMessage(f, c, value) ==
    [r \in Requests |-> IF r \in {c} \X Recipients THEN value ELSE f[r]]

(* Only what a crawler is refused is alerted.                                *)
CausesAlert(r) == ~IsTelegram(r)

(* Status 403: the task that sends the alert is spawned, the answer returned.*)
Forbidden(r) ==
    LET ended == [stage EXCEPT ![r] = "refused"] IN
    /\ stage[r] = "wire"
    /\ forbidden' = IF IsTelegram(r) THEN forbidden ELSE forbidden + 1
    /\ IF CausesAlert(r)
       THEN LET c == IF IsTelegram(r) THEN r[1] ELSE r IN
            /\ alerts' = alerts + 1
            /\ message' = [message EXCEPT ![c] = "markdown"]
            /\ stage' = WithMessage(ended, c, "ready")
            /\ failures' = WithMessage(failures, c, 0)
       ELSE stage' = ended /\ UNCHANGED <<failures, alerts, message>>
    /\ UNCHANGED <<limited, copies, accepted>>

(* Any other answer: for Telegram the body says whether the message was      *)
(* accepted, and a body that cannot be read is an error without a retry.     *)
Answered(r, outcome, arrived) ==
    /\ stage[r] = "wire"
    /\ IsTelegram(r) \/ outcome = "ok"
    /\ outcome = "ok" => arrived
    /\ outcome = "refused" => ~arrived
    /\ stage' = [stage EXCEPT ![r] = outcome]
    /\ Received(r, arrived)
    /\ accepted' = IF IsTelegram(r) /\ outcome = "ok" THEN accepted \cup {r} ELSE accepted
    /\ UNCHANGED <<failures, limited, message, alerts, forbidden>>

(* Mutant: everyone gets the plain form if one request has failed.           *)
FallsBackIfAnyFailed(outcomes) == outcomes # {"ok"}

(* Telegram::send falls back to plain text when nobody's request was ok.     *)
FallsBack(outcomes) == "ok" \notin outcomes

(* join_all of the requests of an alert returns.                             *)
Joined(c) ==
    LET outcomes == {stage[<<c, r>>] : r \in Recipients} IN
    /\ message[c] \in {"markdown", "plain"}
    /\ outcomes \subseteq Ended
    /\ IF message[c] = "markdown" /\ FallsBack(outcomes)
       THEN /\ message' = [message EXCEPT ![c] = "plain"]
            /\ stage' = WithMessage(stage, c, "ready")
            /\ failures' = WithMessage(failures, c, 0)
       ELSE message' = [message EXCEPT ![c] = "sent"] /\ UNCHANGED <<stage, failures>>
    /\ UNCHANGED <<limited, alerts, forbidden, copies, accepted>>

HCNext ==
    \/ \E c \in Crawlers : CallSend(c) \/ Joined(c)
    \/ \E r \in Requests :
        \/ Acquire(r) \/ RateLimited(r) \/ Resume(r) \/ Forbidden(r)
        \/ \E arrived \in BOOLEAN :
            SendFails(r, arrived) \/ \E o \in Ended : Answered(r, o, arrived)

HCSpec == HCInit /\ [][HCNext]_hcVars

---------------------------------------------------------------------------
(* Every variable has its type.                                              *)
HCTypeOK ==
    /\ stage \in [Requests -> Ended \cup {"off", "ready", "wire", "pause"}]
    /\ failures \in [Requests -> 0 .. MaxNetworkRetries]
    /\ limited \in [Requests -> 0 .. MaxRateLimitRetries + 1]
    /\ message \in [Crawlers -> {"none", "markdown", "plain", "sent"}]
    /\ alerts \in Nat /\ forbidden \in Nat
    /\ copies \in [Alerts -> Nat]
    /\ accepted \subseteq Alerts

(* Each refusal of a crawler is alerted once, no recipient gets more copies  *)
(* than the sends of the forms in use allow, and an alert that has been sent *)
(* has reached someone or was refused or lost in both forms.                 *)
AlertsAreAccounted ==
    /\ Cardinality(OnWire) <= Permits
    /\ alerts = forbidden
    /\ \A m \in Alerts :
        copies[m] <= MaxNetworkRetries * (IF message[m[1]] = "markdown" THEN 1 ELSE 2)
    /\ \A c \in Crawlers : message[c] = "sent" =>
        \/ \E r \in Recipients : <<c, r>> \in accepted /\ copies[<<c, r>>] > 0
        \/ \A r \in Recipients : stage[<<c, r>>] \in {"refused", "err"}

(* A recipient who is known to have an alert does not receive it again.      *)
ConfirmedGetNoMore == \A m \in accepted : copies'[m] = copies[m]

(* Whatever waits, fails or is refused, the permits suffice, each refusal of *)
(* a crawler is alerted exactly once (an alert that is refused itself causes *)
(* no other), an alert that has been sent has reached someone or was refused *)
(* or lost in both forms, and a recipient who is known to have the alert     *)
(* does not receive it again, while one whose confirmation was lost may, as  *)
(* often as the sends of both forms allow (send_with_client, Telegram::send).*)
OneAlertPerRefusal == []AlertsAreAccounted /\ [][ConfirmedGetNoMore]_hcVars
=============================================================================
