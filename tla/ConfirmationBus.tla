-------------------------- MODULE ConfirmationBus --------------------------
(***************************************************************************)
(* Tool invocations that ask over the message bus whether they may run     *)
(* (tools/tools.ts getMessageBusDecision). The bus puts the question to    *)
(* the policy engine (confirmation-bus/message-bus.ts) and, when that says *)
(* to ask, to its listeners: schedulers, which say that the user has to be *)
(* asked, and ACP sessions, which consult the policy again. Every          *)
(* invocation hears every answer.                                          *)
(***************************************************************************)
CONSTANTS
    Asks,        \* invocations, each with its correlation id
    Forced,      \* [Asks -> decisions and NotForced]: forcedDecision
    Trusted,     \* asks on a bus that is not derived for a subagent
    Schedulers,  \* is there a scheduler that listens?
    AcpSessions     \* ACP sessions that listen

VARIABLES
    askPc,       \* of the invocation
    publishPc,   \* of its question: at the policy, done
    consulted,   \* sessions that consult the policy for it
    granted,     \* history: allowed by the policy, or by a trusted caller
    signalled    \* asks whose signal is aborted

busVars == <<askPc, publishPc, consulted, granted, signalled>>

NotForced == "none"
Decisions == {"allow", "deny", "ask_user"}

ASSUME BusConstants ==
    /\ Forced \in [Asks -> Decisions \cup {NotForced}] /\ Trusted \subseteq Asks
    /\ Schedulers \in BOOLEAN

BusInit ==
    /\ askPc = [a \in Asks |-> "new"] /\ publishPc = [a \in Asks |-> "new"]
    /\ consulted = [a \in Asks |-> {}] /\ granted = {} /\ signalled = {}

\* wrong: any answer is taken for its own
HearsAll(b, a) == TRUE

\* responseHandler of every invocation: an answer with its own id
Hears(b, a) == b = a

Answered(pc, a, decision) ==
    [b \in Asks |-> IF pc[b] = "asking" /\ Hears(b, a) THEN decision ELSE pc[b]]

Answer(a, decision) == askPc' = Answered(askPc, a, decision)

\* getMessageBusDecision
Ask(a) ==
    /\ askPc[a] = "new"
    /\ IF a \in signalled THEN askPc' = [askPc EXCEPT ![a] = "deny"] /\ UNCHANGED publishPc
       ELSE /\ askPc' = [askPc EXCEPT ![a] = "asking"]
            /\ publishPc' = [publishPc EXCEPT ![a] = "policy"]
    /\ UNCHANGED <<consulted, granted, signalled>>

Effective(a, policy) == IF a \in Trusted /\ Forced[a] # NotForced THEN Forced[a] ELSE policy

\* publish, once the policy engine has decided: answered, or put to listeners.
\* A scheduler answers within the call, a session consults the policy first.
Decide(a) ==
    /\ publishPc[a] = "policy" /\ publishPc' = [publishPc EXCEPT ![a] = "done"]
    /\ \E policy \in Decisions :
         LET decision == Effective(a, policy)
         IN  /\ granted' = IF decision = "allow" THEN granted \cup {a} ELSE granted
             /\ IF decision # "ask_user" \/ Schedulers \/ AcpSessions = {} THEN Answer(a, decision)
                ELSE UNCHANGED askPc
             /\ consulted' = IF decision = "ask_user" THEN [consulted EXCEPT ![a] = AcpSessions]
                             ELSE consulted
    /\ UNCHANGED signalled

\* A checker of the policy engine fails: 'error' is emitted, nobody answers.
PolicyFails(a) ==
    /\ publishPc[a] = "policy" /\ publishPc' = [publishPc EXCEPT ![a] = "done"]
    /\ UNCHANGED <<askPc, consulted, granted, signalled>>

\* acpSession.ts handleToolConfirmationRequest: the policy may have changed
\* since the bus asked it; no tool and a failed check deny.
SessionAnswers(a, i) ==
    /\ i \in consulted[a] /\ consulted' = [consulted EXCEPT ![a] = @ \ {i}]
    /\ \E policy \in Decisions :
         /\ Answer(a, policy)
         /\ granted' = IF policy = "allow" THEN granted \cup {a} ELSE granted
    /\ UNCHANGED <<publishPc, signalled>>

\* wrong: the timer starts once the policy has decided
ExpiresPublished(a) ==
    /\ askPc[a] = "asking" /\ publishPc[a] = "done" /\ askPc' = [askPc EXCEPT ![a] = "ask_user"]
    /\ UNCHANGED <<publishPc, consulted, granted, signalled>>

\* 30 seconds without an answer
Expires(a) ==
    /\ askPc[a] = "asking" /\ askPc' = [askPc EXCEPT ![a] = "ask_user"]
    /\ UNCHANGED <<publishPc, consulted, granted, signalled>>

\* The abort listener answers for the one that is asking.
Signal(a) ==
    /\ a \notin signalled /\ signalled' = signalled \cup {a}
    /\ askPc' = IF askPc[a] = "asking" THEN [askPc EXCEPT ![a] = "deny"] ELSE askPc
    /\ UNCHANGED <<publishPc, consulted, granted>>

BusNext == \E a \in Asks :
    \/ Ask(a) \/ Decide(a) \/ PolicyFails(a) \/ Expires(a) \/ Signal(a)
    \/ \E i \in AcpSessions : SessionAnswers(a, i)

BusSpec == BusInit /\ [][BusNext]_busVars

-----------------------------------------------------------------------------
\* Every variable keeps its type.
BusTypeOK ==
    /\ askPc \in [Asks -> Decisions \cup {"new", "asking"}]
    /\ publishPc \in [Asks -> {"new", "policy", "done"}]
    /\ consulted \in [Asks -> SUBSET AcpSessions]
    /\ granted \subseteq Asks /\ signalled \subseteq Asks

\* An invocation that may run unasked was allowed itself: not by the answer to
\* another one, a late answer, a listener that only wants the user to be asked,
\* or a decision that a subagent forced.
AllowedItself == \A a \in Asks : askPc[a] = "allow" => a \in granted

\* Whether the policy fails, nobody listens, or nobody answers: every invocation
\* gets a decision.
AsksEnd == \A a \in Asks : askPc[a] = "asking" ~> askPc[a] \in Decisions
=============================================================================
