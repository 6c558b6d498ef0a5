---------------------------- MODULE ModelFallback ----------------------------
(***************************************************************************)
(* One request of the chat to the model: the retry loop (utils/retry.ts),  *)
(* the health of the models (availability/modelAvailabilityService.ts), the *)
(* choice of a model (availability/policyHelpers.ts) and the fallback to   *)
(* another one (fallback/handler.ts), which may ask the user. The chain    *)
(* from a model holds the others of its family, or the model alone.        *)
(***************************************************************************)
EXTENDS Integers, Sequences

CONSTANTS
    Models,
    ChainFrom,    \* [Models -> sequences of Models], the model itself first
    LastResort,   \* [Models -> Models], taken when no model of that chain is available
    AutoSticky,   \* models whose transient failure lasts one turn, under auto
    AutoModel,    \* the configured name that leaves the choice to the router
    SilentFrom,   \* models whose chain is followed unasked: flash-lite, all in plan mode
    AutoRetry,    \* low error verbosity: transient failures are retried unasked
    MaxTries,     \* attempts of one model
    MaxCapacity, MaxValidations,
    Turns, Patience   \* bounds: turns, and consents of the user in a request

ASSUME FallbackConstants ==
    /\ ChainFrom \in [Models -> Seq(Models)]
    /\ \A m \in Models : Len(ChainFrom[m]) > 0 /\ ChainFrom[m][1] = m
    /\ LastResort \in [Models -> Models] /\ Models # {} /\ AutoModel \notin Models
    /\ AutoSticky \subseteq Models /\ SilentFrom \subseteq Models /\ AutoRetry \in BOOLEAN
    /\ {MaxTries, MaxCapacity, MaxValidations, Turns, Patience} \subseteq Nat
    /\ MaxTries > 0

VARIABLES
    configured, activeModel,   \* Config.model and _activeModel
    health,                    \* what is known of each model
    phase, requested,          \* of the request, and the model it asks for
    lastModel, seenActive,     \* lastModelToUse, initialActiveModel
    tries, capacityTries, validations,
    failure, fallbackModel,    \* what the handler is asked about
    turn, consents,            \* counters that bound the instance
    spared                     \* history: models given up for the turn by retry_once

retryVars == <<tries, capacityTries, validations>>
modelVars == <<configured, activeModel, health, phase, requested, lastModel, seenActive,
               retryVars, failure, fallbackModel, turn, consents, spared>>

FailureKinds == {"terminal", "transient", "not_found", "unknown"}
HealthStates == {"healthy", "quota", "capacity", "sticky", "consumed"}
Available(m) == health[m] \in {"healthy", "sticky"}
Items(s) == {s[i] : i \in 1 .. Len(s)}

\* The first model of a sequence that is available
FirstAvailable(s) ==
    s[CHOOSE i \in 1 .. Len(s) : Available(s[i]) /\ \A j \in 1 .. i - 1 : ~Available(s[j])]

SomeModel == CHOOSE m \in Models : TRUE

FallbackInit ==
    /\ configured \in Models \cup {AutoModel} /\ activeModel = configured
    /\ health = [m \in Models |-> "healthy"]
    /\ phase = "idle" /\ turn = 0 /\ consents = 0
    /\ requested = SomeModel /\ lastModel = SomeModel /\ seenActive = SomeModel
    /\ tries = 0 /\ capacityTries = 0 /\ validations = 0
    /\ failure = "unknown" /\ fallbackModel = SomeModel /\ spared = {}

-----------------------------------------------------------------------------
\* client.ts: resetTurn before every message, then the router's choice.
\* selectModelForAvailability, applyModelSelection
Selection(m) ==
    IF \E n \in Items(ChainFrom[m]) : Available(n) THEN FirstAvailable(ChainFrom[m])
    ELSE LastResort[m]

Select(m, h) == [h EXCEPT ![m] = IF @ = "sticky" THEN "consumed" ELSE @]

\* The models of the router: a model outside the families has a chain of its own.
Routed == {m \in Models : Items(ChainFrom[m]) \cap AutoSticky # {}}

NewTurn ==
    /\ phase = "idle" /\ turn < Turns
    /\ turn' = turn + 1 /\ spared' = {}
    /\ phase' = "routed"
    /\ health' = [m \in Models |-> IF health[m] = "consumed" THEN "sticky" ELSE health[m]]
    /\ activeModel' = configured
    /\ requested' \in (IF configured = AutoModel THEN Routed ELSE {configured})
    /\ UNCHANGED <<configured, lastModel, seenActive, retryVars, failure, fallbackModel, consents>>

\* The stream that a request returned broke: the chat asks again, same turn.
RequestAgain ==
    /\ phase = "idle" /\ turn > 0
    /\ phase' = "routed"
    /\ UNCHANGED <<configured, activeModel, health, requested, lastModel, seenActive,
                   retryVars, failure, fallbackModel, turn, consents, spared>>

Begin ==
    /\ phase = "routed" /\ phase' = "first"
    /\ LET m == Selection(requested)
       IN  lastModel' = m /\ activeModel' = m /\ seenActive' = m /\ health' = Select(m, health)
    /\ tries' = 0 /\ capacityTries' = 0 /\ validations' = 0 /\ consents' = 0
    /\ UNCHANGED <<configured, requested, failure, fallbackModel, turn, spared>>

\* wrong: the attempt is not counted
CallUncounted(m) ==
    /\ phase' = "calling" /\ lastModel' = m
    /\ UNCHANGED <<configured, requested, retryVars, failure, fallbackModel, turn, consents, spared>>

\* apiCall: a changed active model is followed, a model that has become
\* unavailable since the first attempt is replaced.
Call(m) ==
    /\ phase' = "calling" /\ tries' = tries + 1
    /\ lastModel' = m
    /\ UNCHANGED <<configured, requested, capacityTries, validations, failure,
                   fallbackModel, turn, consents, spared>>

Reselects == phase = "loop" /\ ~Available(lastModel)

Attempt ==
    /\ phase \in {"first", "loop"} /\ tries < MaxTries
    /\ IF activeModel # seenActive
         THEN /\ Call(activeModel) /\ seenActive' = activeModel
              /\ UNCHANGED <<activeModel, health>>
       ELSE IF Reselects
         THEN LET m == Selection(requested)
              IN  Call(m) /\ activeModel' = m /\ seenActive' = m /\ health' = Select(m, health)
       ELSE Call(lastModel) /\ UNCHANGED <<activeModel, seenActive, health>>

Ended ==
    /\ phase' = "idle"
    /\ UNCHANGED <<configured, activeModel, requested, lastModel, seenActive, retryVars,
                   failure, fallbackModel, turn>>

Succeed ==
    /\ phase = "calling" /\ Ended
    /\ health' = [health EXCEPT ![lastModel] = "healthy"]
    /\ spared' = spared \ {lastModel}
    /\ UNCHANGED consents

\* Fatal errors, exhausted network errors, an abort during a call or a pause
Throw ==
    /\ phase \in {"first", "loop", "calling"} /\ Ended
    /\ UNCHANGED <<health, consents, spared>>

Causes == FailureKinds \cup {"capacity"}
KindOf(cause) == IF cause = "capacity" THEN "transient" ELSE cause

\* Exhausted capacity is retried as transient twice in a request.
Counted(cause) ==
    IF cause = "capacity" /\ capacityTries < MaxCapacity THEN capacityTries + 1 ELSE capacityTries

\* A failure that calls onPersistent429
Persists(cause) ==
    \/ cause \in {"terminal", "not_found"} \/ tries = MaxTries
    \/ cause = "capacity" /\ Counted(cause) = MaxCapacity

\* A pause, then the next attempt
RetrySame ==
    /\ phase = "calling" /\ phase' = "loop"
    /\ \E cause \in Causes : ~Persists(cause) /\ capacityTries' = Counted(cause)
    /\ UNCHANGED <<configured, activeModel, health, requested, lastModel, seenActive, tries,
                   validations, failure, fallbackModel, turn, consents, spared>>

\* The user verifies the account; the attempts start again.
VerifyAccount ==
    /\ phase = "calling" /\ validations < MaxValidations
    /\ phase' = "loop" /\ tries' = 0 /\ validations' = validations + 1
    /\ UNCHANGED <<configured, activeModel, health, requested, lastModel, seenActive,
                   capacityTries, failure, fallbackModel, turn, consents, spared>>

-----------------------------------------------------------------------------
\* handleFallback
Position(m, s) == CHOOSE i \in 1 .. Len(s) : s[i] = m /\ \A j \in 1 .. i - 1 : s[j] # m

Candidates(chain, failed) ==
    IF failed \in Items(chain) THEN SubSeq(chain, Position(failed, chain) + 1, Len(chain)) ELSE chain

\* applyAvailabilityTransition, from the chain of the active model
Transition(m, kind, h) ==
    IF m \notin Items(ChainFrom[activeModel]) THEN h
    ELSE IF kind = "transient" /\ configured = AutoModel /\ m \in AutoSticky
      THEN [h EXCEPT ![m] = IF @ \in {"quota", "capacity"} THEN @ ELSE "consumed"]
    ELSE [h EXCEPT ![m] = IF kind = "terminal" THEN "quota" ELSE "capacity"]

\* activateFallbackMode: setModel forgets what is known of all models.
Activate(m, h) ==
    IF activeModel # m
    THEN /\ configured' = m /\ activeModel' = m
         /\ health' = [n \in Models |-> "healthy"]
    ELSE health' = h /\ UNCHANGED <<configured, activeModel>>

StartOver == phase' = "loop" /\ tries' = 0

AskUser(kind, m) ==
    /\ phase' = "asking" /\ failure' = kind /\ fallbackModel' = m
    /\ UNCHANGED <<configured, activeModel, health, tries, spared>>

GiveUp ==
    /\ phase' = "idle"
    /\ UNCHANGED <<configured, activeModel, health, tries, failure, fallbackModel, spared>>

Switch(kind, m) ==
    /\ StartOver /\ Activate(m, Transition(lastModel, kind, health))
    /\ spared' = {} /\ UNCHANGED <<failure, fallbackModel>>

\* resolvePolicyAction, of the policy of the fallback model
SwitchesUnasked(kind, m) ==
    activeModel \in SilentFrom \/ (kind = "transient" /\ configured = AutoModel /\ m \in AutoSticky)

Resort(kind, candidates) ==
    LET m == IF \E n \in Items(candidates) : Available(n) THEN FirstAvailable(candidates)
             ELSE LastResort[activeModel]
    IN  IF m \notin Items(candidates) \/ m = lastModel THEN GiveUp
        ELSE IF SwitchesUnasked(kind, m) \/ (m = activeModel /\ lastModel # activeModel) THEN Switch(kind, m)
        ELSE AskUser(kind, m)

Persist ==
    /\ phase = "calling"
    /\ \E cause \in Causes :
         /\ Persists(cause) /\ capacityTries' = Counted(cause)
         /\ LET candidates == Candidates(ChainFrom[activeModel], lastModel)
                kind == KindOf(cause)
            IN  IF candidates # << >> THEN Resort(kind, candidates)
                ELSE IF lastModel # activeModel /\ Available(activeModel) THEN Switch(kind, activeModel)
                ELSE AskUser(kind, lastModel)
    /\ UNCHANGED <<requested, lastModel, seenActive, validations, turn, consents>>

Unasked == AutoRetry /\ failure \in {"transient", "unknown"}

Consent == IF Unasked THEN UNCHANGED consents
           ELSE consents < Patience /\ consents' = consents + 1

\* retry_always, the user's permanent switch
RetryAlways ==
    /\ phase = "asking" /\ ~Unasked /\ Consent
    /\ StartOver /\ Activate(fallbackModel, Transition(lastModel, failure, health))
    /\ spared' = {}
    /\ UNCHANGED <<requested, lastModel, seenActive, capacityTries, validations, failure, fallbackModel, turn>>

\* wrong: the model keeps its health
Unspared(m, h) == h

\* markRetryOncePerTurn, and consumed until the turn ends
Spare(m, h) == [h EXCEPT ![m] = IF @ \in {"quota", "capacity"} THEN @ ELSE "consumed"]

\* retry_once (and retry_with_credits, which spares no model)
RetryOnce ==
    /\ phase = "asking" /\ Consent /\ StartOver
    /\ health' = IF fallbackModel = lastModel THEN health ELSE Spare(lastModel, health)
    /\ spared' = IF fallbackModel = lastModel THEN spared ELSE spared \cup {lastModel}
    /\ UNCHANGED <<configured, activeModel, requested, lastModel, seenActive, capacityTries,
                   validations, failure, fallbackModel, turn>>

\* stop, retry_later, upgrade; no handler; a dialog that is open already
Decline ==
    /\ phase = "asking" /\ Ended
    /\ UNCHANGED <<health, consents, spared>>

\* A capacity mark is forgotten after 30 seconds.
Expire ==
    /\ \E m \in Models : health[m] = "capacity" /\ health' = [health EXCEPT ![m] = "healthy"]
    /\ UNCHANGED <<configured, activeModel, phase, requested, lastModel, seenActive,
                   retryVars, failure, fallbackModel, turn, consents, spared>>

RequestStep ==
    \/ Begin \/ Attempt \/ Succeed \/ Throw \/ RetrySame \/ VerifyAccount \/ Persist
    \/ RetryAlways \/ RetryOnce \/ Decline

FallbackNext == NewTurn \/ RequestAgain \/ RequestStep \/ Expire

FallbackSpec == FallbackInit /\ [][FallbackNext]_modelVars

-----------------------------------------------------------------------------
\* Every variable keeps its type.
FallbackTypeOK ==
    /\ configured \in Models \cup {AutoModel} /\ activeModel \in Models \cup {AutoModel}
    /\ health \in [Models -> HealthStates]
    /\ phase \in {"idle", "routed", "first", "loop", "calling", "asking"}
    /\ {requested, lastModel, seenActive, fallbackModel} \subseteq Models
    /\ tries \in 0 .. MaxTries /\ capacityTries \in 0 .. MaxCapacity /\ validations \in 0 .. MaxValidations
    /\ failure \in FailureKinds /\ turn \in 0 .. Turns /\ consents \in 0 .. Patience
    /\ spared \subseteq Models

\* The step takes the model that the next call goes to.
Chooses == phase \in {"routed", "loop"} /\ phase' \in {"first", "calling"}

\* handler.ts: a failed model that the user retried once is not chosen again for
\* the remainder of the turn, unless every model of its chain was given up.
SparedForTheTurn ==
    [][Chooses /\ lastModel' \in spared' =>
         lastModel' = LastResort[requested] /\ \A m \in Items(ChainFrom[requested]) : ~Available(m)]_modelVars

\* The handler retries, unasked, the model that failed: it has no other.
RetriesAlone == phase = "asking" /\ Unasked /\ fallbackModel = lastModel

\* retry.ts: a request comes to an end, whatever the models answer and however
\* often the attempts start again, or else comes time and again to the retry of
\* a model that is alone.
RequestsEnd == phase # "idle" ~> phase = "idle" \/ RetriesAlone
=============================================================================
