SPECIFICATION Spec
CONSTANTS
    p1 = p1  p2 = p2  u1 = u1  u2 = u2  a1 = a1  a2 = a2  a3 = a3  pro = pro  flash = flash  lite = lite  solo = solo 
    q1 = q1  q2 = q2  q3 = q3
    Parts = {"agent"}
    Sends = {u1, a1, a3, u2, a2}  Prompts = {p1, p2}  PromptOf <- ChatPromptOf 
    Answers = {a1, a2, a3}  AnswerTo <- ChatAnswerTo  Binary = {a2}  Torn = {u1}  MaxAttempts = 2 
    ManyWaiters = FALSE  Resends = FALSE  NoSend = NoSend  NoPrompt = NoPrompt
    Models = {pro, flash, lite, solo}  ChainFrom <- ModelChains  LastResort <- LastOfChain
    AutoSticky = {pro} 
    AutoModel = AutoModel  SilentFrom = {lite}  AutoRetry = TRUE  MaxTries = 2  MaxCapacity = 3 
    MaxValidations = 1  Turns = 2  Patience = 2
    NStreams = 3  Consumers = {11}  MaxMessages = 1  PromptSend = FALSE
    Asks = {q1, q2, q3}  Forced <- AskForced  Trusted = {q1, q2}  Schedulers = FALSE 
    AcpSessions = {21}
    Requests = {31, 32, 33}  NoRequest = 0  Loads = 2  CancelsLoading = FALSE
    MaxVersion = 3  MaxRequests = 2  ChangesEarly = FALSE  Faulty = TRUE
    Sessions = {41, 42, 43}  NoSession = 0  Retries = 1
    Ids = {1, 2}  Watchers = {51}  Runs = 2
    MaxIds = 6  Window = 2  Misplaces = FALSE
    AgentCalls = {61, 62}  CompletesTask = {62}  MaxTurns = 2
INVARIANTS AbortedByUser
CHECK_DEADLOCK FALSE
