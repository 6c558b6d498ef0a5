---------------------------- MODULE ChatRecording ----------------------------
(***************************************************************************)
(* The recording of a conversation: ChatRecordingService appends a record  *)
(* per change to a log, keeps the latest messages and an index of all of   *)
(* them in memory, and rebuilds both from the log when a session resumes.  *)
(* GeminiChat, whose history it follows, and the clients of both call it.  *)
(*                                                                         *)
(* The log is represented by the messages that its replay yields; a step   *)
(* that appends several records can be cut short after any of them, by a   *)
(* full disk or the end of the process, with half a record at the end.     *)
(***************************************************************************)
EXTENDS Integers, SequencesExt

CONSTANTS MaxIds,    \* bound: how many ids are given to messages and turns
          Window,    \* MAX_HISTORY_MESSAGES
          Misplaces  \* whether a step may stop between a response that it makes
                     \* up for a call and the record that puts it in its place

ASSUME RecordingConstants ==
    MaxIds \in Nat /\ Window \in Nat \ {0} /\ Misplaces \in BOOLEAN

VARIABLES disk,       \* the messages of the log, and whether it ends in half a record
          recorder,   \* what the service keeps in memory
          recording,  \* "live", "reopening", "restarting" or "down"
          loaded,     \* what initialize() has read of the log
          history,    \* the turns of the chat
          sending,    \* "message" or "response": what was sent and is not answered yet
          base,       \* the length of the history when the prompt began, or -1
          lastId      \* the ids given so far

recordingVars == <<disk, recorder, recording, loaded, history, sending, base, lastId>>

\* The content of a message: its kind, and the tool call it makes or answers.
NoCall == 0
Prompt == <<"prompt", NoCall>>
Text == <<"text", NoCall>>
Empty == <<"none", NoCall>>
Calling(c) == <<"call", c>>
Response(c) == <<"response", c>>
Masked(c) == <<"masked", c>>

Answering(content) == content[1] \in {"response", "masked"}
FromUser(content) == content[1] = "prompt" \/ Answering(content)

\* The turn with the environment's description has the same id in every chat.
EnvId == 0
EnvTurn == [id |-> EnvId, content |-> <<"prompt", -1>>]

HistoryTurn(id, content) == [id |-> id, content |-> content]
IdsOf(turns) == [i \in DOMAIN turns |-> turns[i].id]
ContentOf(turns, id) == LET i == CHOOSE i \in DOMAIN turns : turns[i].id = id IN turns[i].content

RecordedType(content) == IF FromUser(content) THEN "user" ELSE "gemini"
NewMessage(type, content) ==
    [type |-> type, content |-> content, tool |-> NoCall, result |-> Empty]

-----------------------------------------------------------------------------
(* Parts of a sequence                                                     *)

\* The elements of s at the places in at
Selected(s, at) ==
    LET upTo[n \in 0 .. Len(s)] ==
            IF n = 0 THEN << >>
            ELSE IF n \in at THEN Append(upTo[n - 1], s[n]) ELSE upTo[n - 1]
    IN upTo[Len(s)]

Only(s, S) == Selected(s, {i \in DOMAIN s : s[i] \in S})
Distinct(s) == Selected(s, {i \in DOMAIN s : \A j \in 1 .. i - 1 : s[j] # s[i]})
Until(s, x) == Selected(s, {i \in DOMAIN s : \A j \in 1 .. i : s[j] # x})
Ending(s, n) == IF Len(s) > n THEN SubSeq(s, Len(s) - n + 1, Len(s)) ELSE s

Put(f, x, v) == [y \in DOMAIN f \cup {x} |-> IF y = x THEN v ELSE f[y]]

-----------------------------------------------------------------------------
(* The log. Messages are kept in a Map: their ids in order, and what the   *)
(* message of each id is.                                                  *)

Chosen(messages, ids) == [ids |-> ids, body |-> [id \in ToSet(ids) |-> messages.body[id]]]
NoMessages == [ids |-> << >>, body |-> [id \in {} |-> NewMessage("info", Empty)]]

Placed(messages, id, m) ==
    [ids |-> IF id \in DOMAIN messages.body THEN messages.ids ELSE Append(messages.ids, id),
     body |-> Put(messages.body, id, m)]

\* What a $patch changes in the messages: contents by id, results by tool call
UpdatedMessage(m, id, contents, results) ==
    [m EXCEPT !.content = IF id \in DOMAIN contents THEN contents[id] ELSE @,
              !.result = IF m.tool \in DOMAIN results THEN results[m.tool] ELSE @]
Updated(messages, contents, results) ==
    [ids |-> messages.ids,
     body |-> [id \in DOMAIN messages.body |->
                  UpdatedMessage(messages.body[id], id, contents, results)]]

\* The ids that a $patch leaves, those it orders behind the others
Reordered(ids, removeIds, orderIds) ==
    LET left == Only(ids, ToSet(ids) \ ToSet(removeIds))
        ordered == Only(Distinct(orderIds), ToSet(left))
    IN Only(left, ToSet(left) \ ToSet(ordered)) \o ordered

\* processLine: the messages after one more record of the log
Replayed(log, r) ==
    CASE r.op = "message" -> Placed(log, r.id, r.message)
      [] r.op = "rewind" ->
            IF r.to \in DOMAIN log.body THEN Chosen(log, Until(log.ids, r.to)) ELSE NoMessages
      [] r.op = "patch" ->
            Chosen(Updated(log, r.contents, r.results), Reordered(log.ids, r.removeIds, r.orderIds))
      [] r.op = "set" -> log

\* appendRecord. Half a record at the end of the log spoils the next one.
AppendRecord(d, r) == [log |-> IF d.torn THEN d.log ELSE Replayed(d.log, r), torn |-> FALSE]
Written(d, records) ==
    LET after[n \in 0 .. Len(records)] ==
            IF n = 0 THEN d ELSE AppendRecord(after[n - 1], records[n])
    IN after[Len(records)]

\* The operations below yield the memory after them and the records they append.
Logged(s, r) == [s EXCEPT !.appended = Append(@, r)]
MessageRecord(id, m) == [op |-> "message", id |-> id, message |-> m]
LogAfter(s) == Written(disk, s.appended).log

-----------------------------------------------------------------------------
(* The index and the window                                                *)

ToolOf(id, m) == [message |-> id, print |-> m.result]

Latest(messages) == Chosen(messages, Ending(messages.ids, Window))
Trimmed(s) ==
    LET latest == [s EXCEPT !.window = Latest(@)]
    IN [latest EXCEPT !.evicted = Len(latest.window.ids) < Len(latest.order)]

\* rebuildIndexAndWindow
Rebuilt(s, messages) ==
    LET ids == messages.ids
        toolAt(i) == messages.body[ids[i]].tool
        tools == {toolAt(i) : i \in DOMAIN ids} \ {NoCall}
        lastWith(c) == CHOOSE i \in DOMAIN ids :
                          toolAt(i) = c /\ \A j \in i + 1 .. Len(ids) : toolAt(j) # c
    IN Trimmed([window |-> messages,
                order |-> Distinct(ids),
                prints |-> [id \in ToSet(ids) |-> messages.body[id].content],
                results |-> [c \in tools |-> LET id == ids[lastWith(c)]
                                             IN ToolOf(id, messages.body[id])],
                evicted |-> FALSE,
                appended |-> s.appended])

\* pushMessage
Pushed(s, id, m) ==
    Trimmed([window |-> Placed(s.window, id, m),
             order |-> IF id \in DOMAIN s.prints THEN s.order ELSE Append(s.order, id),
             prints |-> Put(s.prints, id, m.content),
             results |-> IF m.tool = NoCall THEN s.results ELSE Put(s.results, m.tool, ToolOf(id, m)),
             evicted |-> s.evicted,
             appended |-> Append(s.appended, MessageRecord(id, m))])

Recorded(s, turn) == Pushed(s, turn.id, NewMessage(RecordedType(turn.content), turn.content))

\* recordToolCalls: with the last message, if it is the model's
LastMessage(s) == s.window.body[Last(s.window.ids)]
AttachesTools(s) == s.window.ids # << >> /\ LastMessage(s).type = "gemini"
ToolRecorded(s, call, newId) ==
    LET done(m) == [m EXCEPT !.tool = call, !.result = Response(call)]
    IN IF AttachesTools(s)
       THEN Pushed(s, Last(s.window.ids), done(LastMessage(s)))
       ELSE Pushed(s, newId, done(NewMessage("gemini", Empty)))

\* rewindTo, once the message is found in the order
RewoundMessages(s, id) ==
    LET all == IF s.evicted THEN LogAfter(s) ELSE s.window
    IN IF (s.evicted /\ s.order[1] = id) \/ id \notin DOMAIN all.body THEN NoMessages
       ELSE Chosen(all, Until(all.ids, id))
Rewound(s, id) ==
    Rebuilt(Logged(s, [op |-> "rewind", to |-> id]), RewoundMessages(s, id))

-----------------------------------------------------------------------------
(* updateMessagesFromHistory                                               *)

\* The ids of the turns that are new, and those whose content changed
Added(s, turns) == Distinct(Only(IdsOf(turns), ToSet(IdsOf(turns)) \ DOMAIN s.prints))
ChangedContents(s, turns) ==
    LET ids == {id \in ToSet(IdsOf(turns)) \cap DOMAIN s.prints :
                   s.prints[id] # ContentOf(turns, id)}
    IN [id \in ids |-> ContentOf(turns, id)]

\* The calls whose response changed: what the last turn that answers one holds
ChangedResults(s, turns) ==
    LET answers(c) == {i \in DOMAIN turns : Answering(turns[i].content) /\ turns[i].content[2] = c}
        changed == {c \in DOMAIN s.results :
                       \E i \in answers(c) : turns[i].content # s.results[c].print}
        lastOf(c) == CHOOSE i \in answers(c) : \A j \in answers(c) : j <= i
    IN [c \in changed |-> turns[lastOf(c)].content]

\* Its first loop appends the turns that are new
WithNewTurns(s, turns) ==
    LET ids == Added(s, turns)
        new(id) == NewMessage(RecordedType(ContentOf(turns, id)), ContentOf(turns, id))
    IN [window |-> [ids |-> s.window.ids \o ids,
                    body |-> [id \in DOMAIN s.window.body \cup ToSet(ids) |->
                                 IF id \in ToSet(ids) THEN new(id) ELSE s.window.body[id]]],
        order |-> s.order \o ids,
        prints |-> [id \in DOMAIN s.prints \cup ToSet(ids) |->
                       IF id \in ToSet(ids) THEN new(id).content ELSE s.prints[id]],
        results |-> s.results,
        evicted |-> s.evicted,
        appended |-> s.appended \o [i \in DOMAIN ids |-> MessageRecord(ids[i], new(ids[i]))]]

\* A history that has only lost its last turns is recorded as a rewind.
IsPureTailRollback(s, turns, removed, patched, orderChanged) ==
    /\ removed # << >>
    /\ Added(s, turns) = << >>
    /\ ~patched
    /\ ~orderChanged
    /\ SubSeq(s.order, Len(turns) + 1, Len(s.order)) = removed

\* With what has changed: contents and results, and the turns that are gone and new
Followed(s, turns, contents, results, removed, grown) ==
    LET ids == IdsOf(turns)
        patched == DOMAIN contents # {} \/ DOMAIN results # {}
        orderChanged == Only(grown.order, ToSet(ids)) # ids
        reconciled == removed # << >> \/ orderChanged
        record ==
            IF IsPureTailRollback(s, turns, removed, patched, orderChanged)
            THEN [op |-> "rewind", to |-> removed[1]]
            ELSE [op |-> "patch", contents |-> contents, results |-> results,
                  removeIds |-> removed, orderIds |-> IF orderChanged THEN ids ELSE << >>]
        written == IF patched \/ reconciled THEN Logged(grown, record) ELSE grown
        changed == Updated(grown.window, contents, results)
        source == IF s.evicted THEN LogAfter(written) ELSE changed
        left == {c \in DOMAIN s.results : s.results[c].message \notin ToSet(removed)}
        followed ==
            [window |-> IF ~reconciled THEN changed
                        ELSE IF s.evicted \/ orderChanged
                             THEN Chosen(source, Only(ids, DOMAIN source.body))
                             ELSE Chosen(source, Only(source.ids, ToSet(ids))),
             order |-> ids,
             prints |-> [id \in DOMAIN grown.prints \ ToSet(removed) |->
                            IF id \in DOMAIN contents THEN contents[id] ELSE grown.prints[id]],
             results |-> [c \in left |->
                            IF c \in DOMAIN results
                            THEN [s.results[c] EXCEPT !.print = results[c]] ELSE s.results[c]],
             evicted |-> s.evicted,
             appended |-> written.appended]
        anyChange == patched \/ reconciled \/ Added(s, turns) # << >>
    IN IF anyChange THEN Logged(Trimmed(followed), [op |-> "set"]) ELSE Trimmed(followed)

FollowingHistory(s, turns) ==
    Followed(s, turns, ChangedContents(s, turns), ChangedResults(s, turns),
             Only(s.order, ToSet(s.order) \ ToSet(IdsOf(turns))), WithNewTurns(s, turns))

-----------------------------------------------------------------------------
(* A session                                                               *)

NoMemory == [window |-> NoMessages, order |-> << >>, prints |-> [id \in {} |-> Empty],
             results |-> [c \in {} |-> ToolOf(0, NewMessage("info", Empty))],
             evicted |-> FALSE, appended |-> << >>]

\* A step of the service and the chat together: it comes to its end ...
Completes(s, turns) ==
    /\ disk' = Written(disk, s.appended)
    /\ recorder' = [s EXCEPT !.appended = << >>]
    /\ history' = turns
    /\ recording' = "live"

\* ... or the disk is full, or the process ends, at one of the records it
\* appends. A response made up for a call has an id made of that of the call.
MisplacedAfter(records, n) ==
    \E i \in 1 .. n : /\ \A j \in i .. n : records[j].op = "message"
                      /\ records[i].id < 0
StopsShort(s) ==
    /\ \E n \in 0 .. Len(s.appended) - 1, half \in BOOLEAN :
          LET cut == Written(disk, SubSeq(s.appended, 1, n))
          IN /\ MisplacedAfter(s.appended, n) => Misplaces
             /\ disk' = [log |-> cut.log, torn |-> half \/ cut.torn]
    /\ recorder' = NoMemory
    /\ history' = << >>
    /\ recording' = "down"

Performs(s, turns) == Completes(s, turns) \/ StopsShort(s)

GivesIds(n) == /\ lastId + n <= MaxIds
               /\ lastId' = lastId + n
LastContent == IF history = << >> THEN Empty ELSE Last(history).content

\* sendMessageStream with a message of the user. closeUnansweredToolCallsTurn
\* and closeUnansweredToolResponseTurn first end what was left open.
SendMessage ==
    LET calls == LastContent[1] = "call"
        answer == HistoryTurn(lastId + 1, Response(LastContent[2]))
        answered == IF calls THEN <<answer>> ELSE << >>
        ends == calls \/ Answering(LastContent)
        placeholder == IF ends THEN <<HistoryTurn(lastId + 1 + Len(answered), Text)>> ELSE << >>
        prompt == HistoryTurn(lastId + 1 + Len(answered \o placeholder), Prompt)
        \* An empty answer to a tool response is filled in.
        fills == /\ Len(history) > 1 /\ LastContent = Empty
                 /\ Answering(history[Len(history) - 1].content)
        filled == IF fills THEN [history EXCEPT ![Len(history)].content = Text] ELSE history
        afterFill == IF fills THEN FollowingHistory(recorder, filled) ELSE recorder
        afterAnswer == IF calls THEN Recorded(afterFill, answer) ELSE afterFill
    IN /\ recording = "live" /\ sending = "no"
       /\ GivesIds(1 + Len(answered \o placeholder))
       /\ sending' = "message" /\ base' = Len(history)
       /\ Performs(Recorded(afterAnswer, prompt), filled \o answered \o placeholder \o <<prompt>>)
       /\ UNCHANGED loaded

\* sendMessageStream with the response of a tool; binary data in it becomes a
\* turn of its own, recorded as a notice, behind an acknowledgment
SendResponse ==
    LET response == HistoryTurn(lastId + 1, Response(LastContent[2]))
        acknowledgment == HistoryTurn(lastId + 2, Text)
        binary == HistoryTurn(lastId + 3, Prompt)
        recorded == Recorded(recorder, response)
    IN /\ recording = "live" /\ sending = "no"
       /\ LastContent[1] = "call" /\ LastContent[2] \in DOMAIN recorder.results
       /\ sending' = "response" /\ base' = IF base = -1 THEN Len(history) ELSE base
       /\ \/ GivesIds(1) /\ Performs(recorded, Append(history, response))
          \/ GivesIds(3) /\ Performs(Pushed(Recorded(recorded, acknowledgment), binary.id,
                                       NewMessage("info", binary.content)),
                                history \o <<response, acknowledgment, binary>>)
       /\ UNCHANGED loaded

\* The end of processStreamResponse. The text of the answer is recorded, its
\* parts go to the history; an answer may be empty after a tool's response only.
Reply ==
    LET id == lastId + 1
        ends(recorded, content) ==
            Performs(Recorded(recorder, HistoryTurn(id, recorded)),
                     Append(history, HistoryTurn(id, content)))
    IN /\ recording = "live" /\ sending # "no"
       /\ GivesIds(1)
       /\ \/ ends(Text, Text)
          \/ ends(Empty, Calling(id))
          \/ sending = "response" /\ ends(Empty, Empty)
       /\ sending' = "no"
       /\ UNCHANGED <<loaded, base>>

\* A send that fails takes its message back, an aborted one the whole prompt.
\* The message of a failed send that answers tools stays.
SendFails ==
    LET kept == IF base <= Len(history) THEN SubSeq(history, 1, base) ELSE history
    IN /\ recording = "live" /\ sending # "no"
       /\ \/ Performs(FollowingHistory(recorder, kept), kept) /\ base' = -1
          \/ sending = "response" /\ Completes(recorder, history) /\ UNCHANGED base
       /\ sending' = "no"
       /\ UNCHANGED <<loaded, lastId>>

\* recordCompletedToolCalls, when the calls of the last turn have ended
ToolCompletes ==
    /\ recording = "live" /\ sending = "no"
    /\ LastContent[1] = "call" /\ LastContent[2] \notin DOMAIN recorder.results
    /\ IF AttachesTools(recorder) THEN UNCHANGED lastId ELSE GivesIds(1)
    /\ Performs(ToolRecorded(recorder, LastContent[2], lastId + 1), history)
    /\ UNCHANGED <<loaded, sending, base>>

\* A notice, warning or error on the screen (useHistoryManager). While a chat is
\* made anew for its compressed history, the one before still records them.
Notice ==
    LET noted == Pushed(recorder, lastId + 1, NewMessage("info", Text))
    IN /\ GivesIds(1)
       /\ \/ recording = "live" /\ Performs(noted, history)
          \/ /\ recording = "reopening"
             /\ disk' = Written(disk, noted.appended)
             /\ recorder' = [noted EXCEPT !.appended = << >>]
             /\ UNCHANGED <<recording, history>>
       /\ UNCHANGED <<loaded, sending, base>>

\* discardTrailingUnansweredToolCallTurn
DiscardCalls ==
    /\ recording = "live" /\ sending = "no"
    /\ LastContent[1] = "call"
    /\ Performs(FollowingHistory(recorder, Front(history)), Front(history))
    /\ UNCHANGED <<loaded, sending, base, lastId>>

MaskedAt(turns, i) == [turns EXCEPT ![i].content = Masked(@[2])]

\* Local agents shorten a tool's response under its id (setHistory of turns).
CollapseResponse ==
    /\ recording = "live" /\ sending = "no"
    /\ \E i \in DOMAIN history :
          /\ history[i].content[1] = "response"
          /\ Performs(FollowingHistory(recorder, MaskedAt(history, i)), MaskedAt(history, i))
    /\ UNCHANGED <<loaded, sending, base, lastId>>

\* The client masks responses in a history without ids (setHistory of contents):
\* every turn is recorded again before the former ones are removed.
AllRecorded(s, turns) ==
    LET after[n \in 0 .. Len(turns)] == IF n = 0 THEN s ELSE Recorded(after[n - 1], turns[n])
    IN after[Len(turns)]
Renamed(turns) == [i \in DOMAIN turns |-> HistoryTurn(lastId + i, turns[i].content)]
MaskResponses ==
    /\ recording = "live" /\ sending = "no"
    /\ GivesIds(Len(history))
    /\ \E i \in DOMAIN history :
          LET turns == Renamed(MaskedAt(history, i))
          IN /\ history[i].content[1] = "response"
             /\ Performs(FollowingHistory(AllRecorded(recorder, turns), turns), turns)
    /\ UNCHANGED <<loaded, sending, base>>

\* convertSessionToClientHistory: of each message the turn it becomes, and the
\* response that is made up for its call
ModelContent(m) ==
    IF m.content[1] = "call" \/ m.tool = NoCall THEN m.content ELSE Calling(m.tool)
AnsweredIn(messages, i) ==
    LET message(j) == messages.body[messages.ids[j]]
    IN \E j \in i + 1 .. Len(messages.ids) :
          /\ message(j).type = "user" /\ message(j).content[2] = message(i).tool
          /\ \A k \in i + 1 .. j : message(k).type # "gemini"
BecomesTurn(m) ==
    \/ m.type = "user" /\ m.content # EnvTurn.content
    \/ m.type = "gemini" /\ ModelContent(m) # Empty
ConvertedToHistory(messages) ==
    LET ids == messages.ids
        message(i) == messages.body[ids[i]]
        \* The places 2 * i - 1 and 2 * i are those of message i.
        of(k) == (k + 1) \div 2
        turnAt(k) ==
            LET m == message(of(k))
            IN IF k = 2 * of(k) THEN HistoryTurn(-ids[of(k)], m.result)
               ELSE HistoryTurn(ids[of(k)],
                                IF m.type = "gemini" THEN ModelContent(m) ELSE m.content)
        isTurn(k) ==
            LET m == message(of(k))
            IN /\ BecomesTurn(m)
               /\ k = 2 * of(k) => m.tool # NoCall /\ ~AnsweredIn(messages, of(k))
        places == 1 .. 2 * Len(ids)
    IN Selected([k \in places |-> turnAt(k)], {k \in places : isTurn(k)})

\* rewindCommand: rewindTo a prompt and setHistory with what is left
Rewind ==
    /\ recording = "live" /\ sending = "no"
    /\ \E id \in ToSet(recorder.order) :
          LET turns == ConvertedToHistory(RewoundMessages(recorder, id))
          IN /\ recorder.prints[id] = Prompt
             /\ Performs(FollowingHistory(Rewound(recorder, id), turns), turns)
    /\ UNCHANGED <<loaded, sending, base, lastId>>

\* tryCompressChat: a new chat for a summary and the latest turns, without
\* their ids, resumes the session of the present one
Compress ==
    /\ recording = "live" /\ sending = "no"
    /\ \E n \in 0 .. Len(history) - 1 :
          LET latest == SubSeq(history, Len(history) - n + 1, Len(history))
              summary == <<HistoryTurn(lastId, Prompt), HistoryTurn(lastId, Text)>>
          IN /\ (n > 0 => FromUser(latest[1].content))
             /\ GivesIds(n + 2)
             /\ history' = <<EnvTurn>> \o Renamed(summary \o latest)
    /\ recording' = "reopening"
    /\ loaded' = disk.log
    /\ base' = -1
    /\ UNCHANGED <<disk, recorder, sending>>

\* resumeChat in a new process, with the history made of the log
ResumeSession ==
    /\ recording = "down"
    /\ history' = <<EnvTurn>> \o ConvertedToHistory(disk.log)
    /\ recording' = "restarting"
    /\ loaded' = disk.log
    /\ sending' = "no" /\ base' = -1
    /\ UNCHANGED <<disk, recorder, lastId>>

\* The rest of doInitialize with a session to resume, and of initialize
ReopenedSilently(s) == Rebuilt(s, loaded)
Reopened(s) == Logged(Rebuilt(s, loaded), [op |-> "set"])
Initialized ==
    /\ recording \in {"reopening", "restarting"}
    /\ Performs(FollowingHistory(Reopened(recorder), history), history)
    /\ loaded' = NoMessages
    /\ UNCHANGED <<sending, base, lastId>>

\* A new session: its first turn is recorded with the history
RecordingInit ==
    LET m == NewMessage("user", EnvTurn.content)
        first == [ids |-> <<EnvId>>, body |-> [id \in {EnvId} |-> m]]
    IN /\ disk = [log |-> first, torn |-> FALSE]
       /\ recorder = [NoMemory EXCEPT !.window = first, !.order = <<EnvId>>,
                                      !.prints = [id \in {EnvId} |-> m.content]]
       /\ history = <<EnvTurn>>
       /\ recording = "live"
       /\ loaded = NoMessages /\ sending = "no" /\ base = -1 /\ lastId = 0

RecordingNext ==
    \/ SendMessage \/ SendResponse \/ Reply \/ SendFails \/ ToolCompletes \/ Notice
    \/ DiscardCalls \/ CollapseResponse \/ MaskResponses \/ Rewind \/ Compress
    \/ ResumeSession \/ Initialized

RecordingSpec == RecordingInit /\ [][RecordingNext]_recordingVars

-----------------------------------------------------------------------------
(* Properties                                                              *)

RecordingTypeOK ==
    /\ recording \in {"live", "reopening", "restarting", "down"}
    /\ sending \in {"no", "message", "response"}
    /\ lastId \in 0 .. MaxIds /\ base \in Int
    /\ disk.torn \in BOOLEAN /\ recorder.evicted \in BOOLEAN
    /\ recorder.appended = << >>
    /\ Len(recorder.window.ids) <= Window

\* The log says what the service knows: replayed, it yields the messages of the
\* index in their order, its last ones are the window, and the fingerprints by
\* which later changes are noticed are those of the contents and results on
\* disk. Only notices may be on disk alone. Nothing that is appended is lost in
\* half a record left by the process before (doInitialize's metadata update
\* takes its place).
LogAgrees ==
    LET log == disk.log
        order == recorder.order
        tools == {log.body[id].tool : id \in ToSet(order)} \ {NoCall}
    IN recording = "live" =>
         /\ Only(log.ids, ToSet(order)) = order
         /\ recorder.window = Latest(Chosen(log, order))
         /\ recorder.prints = [id \in ToSet(order) |-> log.body[id].content]
         /\ DOMAIN recorder.results = tools
         /\ \A c \in tools :
               /\ recorder.results[c].message \in ToSet(order)
               /\ LET m == log.body[recorder.results[c].message]
                  IN m.tool = c /\ m.result = recorder.results[c].print
         /\ \A id \in ToSet(log.ids) \ ToSet(order) : log.body[id].type = "info"

\* What is resumed is the conversation: the turns of the chat are on disk, in
\* the chat's order, whatever was rolled back, masked, compressed or rewound;
\* only the placeholder that closes a tool's response waits for the next update.
LogFollowsChat ==
    LET ids == IdsOf(history)
    IN recording = "live" =>
          /\ Only(ids, ToSet(disk.log.ids)) = Only(disk.log.ids, ToSet(ids))
          /\ \A i \in DOMAIN history :
                \/ history[i].id \in ToSet(disk.log.ids)
                \/ history[i].content = Text /\ i > 1 /\ Answering(history[i - 1].content)

\* Both, whatever step of a recording or a rollback was cut short before
RecordingFaithful == LogAgrees /\ LogFollowsChat
=============================================================================
