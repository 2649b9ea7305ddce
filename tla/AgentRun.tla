------------------------------ MODULE AgentRun ------------------------------
(***************************************************************************)
(* One answer of the AI chat (routers/chat.py, services/ai_agent.py,       *)
(* services/llm.py): the intent, the rounds of the search loop with their  *)
(* tools, the streamed answer, and the cancelling of it all when the       *)
(* browser goes away.  What the language model answers is anything it can  *)
(* answer.  Its settings are read from the database before each request,   *)
(* outside of what llm.py catches: the read may fail, and each caller      *)
(* makes something else of it.                                             *)
(***************************************************************************)
EXTENDS Naturals

CONSTANTS
  RoundSettings,   \* values of ai_max_search_rounds
  MaxCalls         \* bound: tool calls of one reply

ASSUME AgentAssumption == RoundSettings \subseteq Nat \ {0} /\ MaxCalls \in Nat \ {0}

VARIABLES
  maxRounds, round,
  stage,        \* where run_agent is
  reply,        \* the reply of the round
  left,         \* tool calls of the reply not yet run
  open,         \* tool calls in conv_messages without their tool message
  searched,     \* len(memory.searched_queries)
  acted,        \* tool_actions is not empty
  answered,     \* answer_generated
  streamOf,     \* which caller of _stream_filtered streams
  browser,      \* connected or gone
  cancelEvent,
  unread,       \* history: the settings for the fallback could not be read
  asked,        \* history: requests sent to the language model (up to maxRounds + 3)
  askedAfter,   \* history: of these, sent after cancelEvent was set (up to 2)
  answers,      \* history: answers given, be they empty
  broke         \* history: the loop was left by an exception or an empty reply

agentVars == <<maxRounds, round, stage, reply, left, open, searched, acted, answered, streamOf,
               browser, cancelEvent, unread, asked, askedAfter, answers, broke>>
runVars == <<maxRounds, searched, acted, browser, cancelEvent>>
streamVars == <<streamOf, unread>>
loopVars == <<runVars, streamVars>>
sentVars == <<asked, askedAfter>>

-----------------------------------------------------------------------------
None == [kind |-> "none", calls |-> 0, more |-> FALSE]

\* What chat_completion can return: tool calls (of which the last may have arguments that are no
\* object), calls inside the text that can or cannot be extracted, a text, a text that says nothing
\* was found, an empty text, a null for the text, no choice.  Errors of the server are texts.
Replies ==
  [kind : {"calls", "oddCalls", "embedded"}, calls : 1..MaxCalls, more : BOOLEAN]
  \cup [kind : {"tags", "text", "negative", "empty", "null", "nothing"}, calls : {0},
        more : BOOLEAN]

Intents == {"search", "context", "direct"}

AgentGoes(from, to) == stage = from /\ stage' = to
Ended == stage \in {"done", "failed", "cancelled"}
LastRound == round = maxRounds

\* Mutant: the event is given to the stream only.
HeededInStream == cancelEvent /\ stage \in {"stream", "streaming", "speaking"}

\* The event is looked at before a request is prepared, and while it is awaited.
Heeded == cancelEvent

Cancel == stage' = "cancelled" /\ UNCHANGED <<round, reply, left, open, answered, broke, loopVars,
                                              sentVars, answers>>

LeaveLoop == stage' = "after"

\* The settings have been read since the check, and the request goes out.
Ask(from, to) ==
  /\ AgentGoes(from, to)
  /\ asked' = IF asked < maxRounds + 3 THEN asked + 1 ELSE asked
  /\ askedAfter' = IF cancelEvent /\ askedAfter < 2 THEN askedAfter + 1 ELSE askedAfter
  /\ UNCHANGED <<round, reply, left, open, answered, broke, loopVars, answers>>

-----------------------------------------------------------------------------
(* The browser and its monitor                                             *)

LeavePage ==
  /\ ~Ended /\ browser = "here"
  /\ browser' = "gone"
  /\ UNCHANGED <<maxRounds, round, stage, reply, left, open, searched, acted, answered, cancelEvent,
                 streamVars, sentVars, answers, broke>>

MonitorSees ==
  /\ ~Ended /\ browser = "gone" /\ ~cancelEvent
  /\ cancelEvent' = TRUE
  /\ UNCHANGED <<maxRounds, round, stage, reply, left, open, searched, acted, answered, browser,
                 streamVars, sentVars, answers, broke>>

\* The server drops the generator of a browser that is gone, at whatever it waits for.
DropGenerator ==
  /\ ~Ended /\ browser = "gone"
  /\ Cancel

-----------------------------------------------------------------------------
(* The intent (left out when the search is forced)                         *)

\* A setting or the tree of folders cannot be read: nothing catches that, the connection is cut.
SetUpFails ==
  /\ AgentGoes("intent", "failed")
  /\ UNCHANGED <<round, reply, left, open, answered, broke, loopVars, sentVars, answers>>

SkipIntent ==
  /\ AgentGoes("intent", "round")
  /\ round' = 1
  /\ UNCHANGED <<reply, left, open, answered, broke, loopVars, sentVars, answers>>

CheckIntent ==
  /\ stage = "intent"
  /\ IF Heeded THEN Cancel
     ELSE /\ AgentGoes("intent", "askIntent")
          /\ UNCHANGED <<round, reply, left, open, answered, broke, loopVars, sentVars, answers>>

AskIntent == Ask("askIntent", "intentSent")

\* An error before the request means a search.
IntentUnread ==
  /\ AgentGoes("askIntent", "round")
  /\ round' = 1
  /\ UNCHANGED <<reply, left, open, answered, broke, loopVars, sentVars, answers>>

\* An odd answer and an error mean a search too; a cancelled request is cancelled.
IntentAnswered ==
  /\ stage = "intentSent"
  /\ IF Heeded THEN Cancel
     ELSE /\ \E intent \in Intents :
               IF intent = "search" THEN stage' = "round" /\ round' = 1 /\ UNCHANGED streamOf
               ELSE stage' = "stream" /\ streamOf' = "plain" /\ UNCHANGED round
          /\ UNCHANGED <<reply, left, open, answered, broke, runVars, unread, sentVars, answers>>

-----------------------------------------------------------------------------
(* A round                                                                 *)

CheckRound ==
  /\ stage = "round"
  /\ IF Heeded THEN Cancel
     ELSE /\ AgentGoes("round", "askRound")
          /\ UNCHANGED <<round, reply, left, open, answered, broke, loopVars, sentVars, answers>>

AskRound == Ask("askRound", "roundSent")

\* An error of the round ends the loop.
RoundUnread ==
  /\ stage = "askRound"
  /\ LeaveLoop /\ broke' = TRUE
  /\ UNCHANGED <<round, reply, left, open, answered, loopVars, sentVars, answers>>

RoundAnswered ==
  /\ stage = "roundSent"
  /\ IF Heeded THEN Cancel
     ELSE /\ \E r \in Replies : reply' = r
          /\ stage' = "reply"
          /\ UNCHANGED <<round, left, open, answered, broke, loopVars, sentVars, answers>>

\* Calls in a text count when the model wants to go on, or in the first round.
Extracts == reply.more \/ round <= 1
CallsOf == IF reply.kind = "embedded" /\ ~Extracts THEN 0 ELSE reply.calls

\* The text left for an answer: tags are cut from it, calls that were not taken empty it, and
\* around calls there may be one.
IsText == reply.kind \in {"text", "negative"}
NoText == reply.kind = "empty" \/ (reply.kind = "embedded" /\ ~Extracts)

\* A null text is looked into for tags, a reply without choices ends the loop.
BrokenReply ==
  /\ stage = "reply" /\ reply.kind \in {"null", "nothing"}
  /\ LeaveLoop /\ broke' = TRUE /\ reply' = None
  /\ UNCHANGED <<round, left, open, answered, loopVars, sentVars, answers>>

NoCallsOrLast ==
  /\ stage = "reply" /\ reply.kind \notin {"null", "nothing"}
  /\ CallsOf = 0 \/ LastRound

\* Mutant: a nudge for the last round too.
NudgeAlways == round = 1

\* The first round must search; a text that found nothing is sent back, three searches at most.
NudgeFirst == round = 1 /\ ~LastRound
NudgeNegative ==
  /\ reply.kind = "negative" /\ ~LastRound
  /\ round + 2 <= maxRounds /\ searched < 3

\* Mutant: a nudge does not count as a round.
SameRound == round

NudgedRound == round + 1

Nudge ==
  /\ NoCallsOrLast /\ (NudgeFirst \/ NudgeNegative)
  /\ round' = NudgedRound
  /\ stage' = IF NudgedRound > maxRounds THEN "after" ELSE "round"
  /\ reply' = None
  /\ UNCHANGED <<left, open, answered, broke, loopVars, sentVars, answers>>

\* Mutant: the answer in the text is not noted.
AnswerUnnoted == FALSE

AnsweredInText == TRUE

AnswerText ==
  /\ NoCallsOrLast /\ ~NudgeFirst /\ ~NudgeNegative /\ ~NoText
  /\ LeaveLoop /\ reply' = None
  /\ answered' = AnsweredInText /\ answers' = answers + 1
  /\ UNCHANGED <<round, left, open, broke, loopVars, sentVars>>

AnswerByStream ==
  /\ NoCallsOrLast /\ ~NudgeFirst /\ ~NudgeNegative /\ ~IsText
  /\ stage' = "stream" /\ streamOf' = "forced" /\ reply' = None
  /\ UNCHANGED <<round, left, open, answered, broke, runVars, unread, sentVars, answers>>

\* The reply with its calls joins the conversation.
TakeCalls ==
  /\ stage = "reply" /\ CallsOf > 0 /\ ~LastRound
  /\ stage' = "tools" /\ left' = CallsOf /\ open' = open + CallsOf
  /\ UNCHANGED <<round, reply, answered, broke, loopVars, sentVars, answers>>

\* Mutant: no message for a call that was run.
Unanswered == open

Answered == open - 1

\* execute_tool turns every exception into a text; its arguments are parsed before it.
RunTool ==
  /\ stage = "tools" /\ left > 0
  /\ ~(reply.kind = "oddCalls" /\ left = 1)
  /\ left' = left - 1 /\ open' = Answered
  /\ acted' = TRUE
  /\ \E s \in {0, 1} : searched' = IF searched < 3 THEN searched + s ELSE searched
  /\ UNCHANGED <<maxRounds, round, stage, reply, answered, browser, cancelEvent, streamVars,
                 sentVars, answers, broke>>

OddArguments ==
  /\ stage = "tools" /\ reply.kind = "oddCalls" /\ left = 1
  /\ LeaveLoop /\ broke' = TRUE /\ reply' = None /\ left' = 0
  /\ UNCHANGED <<round, open, answered, loopVars, sentVars, answers>>

ToolsRun ==
  /\ stage = "tools" /\ left = 0
  /\ round' = round + 1 /\ stage' = "round" /\ reply' = None
  /\ UNCHANGED <<left, open, answered, broke, loopVars, sentVars, answers>>

-----------------------------------------------------------------------------
(* Streaming (stream_chat_raw through _stream_filtered): the plain answer, the answer the loop    *)
(* forces, the fallback after the loop.                                                           *)

\* Mutant: no fallback.
NoFallback == FALSE

Fallback == ~answered /\ acted

AfterLoop ==
  /\ stage = "after"
  /\ IF Fallback THEN stage' = "stream" /\ streamOf' = "fallback"
     ELSE stage' = "done" /\ UNCHANGED streamOf
  /\ UNCHANGED <<round, reply, left, open, answered, broke, runVars, unread, sentVars, answers>>

CheckStream ==
  /\ stage = "stream"
  /\ IF Heeded THEN Cancel
     ELSE /\ stage' = "askStream"
          /\ UNCHANGED <<round, reply, left, open, answered, broke, loopVars, sentVars, answers>>

AskStream == Ask("askStream", "streaming")

\* An error before the stream: of the plain answer nothing catches it, the forced one is part of
\* its round, and of the fallback there is a line in the log and then the end, "done".
StreamUnread ==
  /\ stage = "askStream"
  /\ \/ streamOf = "plain" /\ stage' = "failed" /\ UNCHANGED <<broke, unread>>
     \/ streamOf = "forced" /\ LeaveLoop /\ broke' = TRUE /\ UNCHANGED unread
     \/ streamOf = "fallback" /\ stage' = "done" /\ unread' = TRUE /\ UNCHANGED broke
  /\ UNCHANGED <<round, reply, left, open, answered, runVars, streamOf, sentVars, answers>>

\* The first token that is not of a tag, or an end without one.  The event is looked at with each
\* line; the text of an error and an end without a last line come without a look.
StreamSpeaks ==
  /\ stage = "streaming"
  /\ \/ Heeded /\ Cancel
     \/ /\ answers' = answers + 1
        /\ answered' = TRUE
        /\ stage' = "speaking"
        /\ UNCHANGED <<round, reply, left, open, broke, loopVars, sentVars>>

StreamEnds ==
  /\ stage = "speaking"
  /\ \/ Heeded /\ Cancel
     \/ /\ stage' = "done"
        /\ UNCHANGED <<round, reply, left, open, answered, broke, loopVars, sentVars, answers>>

AgentEnded == Ended /\ UNCHANGED agentVars

-----------------------------------------------------------------------------
AgentInit ==
  /\ maxRounds \in RoundSettings /\ round = 0 /\ stage = "intent" /\ reply = None
  /\ left = 0 /\ open = 0 /\ searched = 0 /\ acted = FALSE /\ answered = FALSE
  /\ streamOf = "none" /\ browser = "here" /\ cancelEvent = FALSE /\ unread = FALSE
  /\ asked = 0 /\ askedAfter = 0 /\ answers = 0 /\ broke = FALSE

AgentStep ==
  \/ SetUpFails \/ SkipIntent \/ CheckIntent \/ AskIntent \/ IntentUnread \/ IntentAnswered
  \/ CheckRound \/ AskRound \/ RoundUnread \/ RoundAnswered
  \/ BrokenReply \/ Nudge \/ AnswerText \/ AnswerByStream
  \/ TakeCalls \/ RunTool \/ OddArguments \/ ToolsRun
  \/ AfterLoop \/ CheckStream \/ AskStream \/ StreamUnread \/ StreamSpeaks \/ StreamEnds

AgentNext == AgentStep \/ LeavePage \/ MonitorSees \/ DropGenerator \/ AgentEnded

\* A read of the settings ends, one way or the other, and a request to the model does: httpx gives
\* up after its time, and max_tokens bounds a stream.
AgentSpec == AgentInit /\ [][AgentNext]_agentVars /\ WF_agentVars(AgentStep)

-----------------------------------------------------------------------------
(* Properties                                                              *)

\* Every variable has its type, the rounds never pass the setting, and one answer costs at most
\* one request for the intent, one for each round and one for the stream (run_agent).
AgentTypeOK ==
  /\ maxRounds \in RoundSettings /\ round \in 0..maxRounds
  /\ stage \in {"intent", "askIntent", "intentSent", "round", "askRound", "roundSent", "reply",
                "tools", "after", "stream", "askStream", "streaming", "speaking", "done", "failed",
                "cancelled"}
  /\ streamOf \in {"none", "plain", "forced", "fallback"}
  /\ reply \in Replies \cup {None} /\ left \in 0..MaxCalls
  /\ searched \in 0..3 /\ browser \in {"here", "gone"}
  /\ {acted, answered, cancelEvent, unread, broke} \subseteq BOOLEAN
  /\ asked <= maxRounds + 2

\* No request goes out with a tool call in the conversation that has no result, which servers of
\* the API refuse; only after a round that broke off in the middle of its calls (run_agent).
CallsAreAnswered ==
  stage \in {"askIntent", "askRound", "askStream"} /\ ~broke => open = 0

\* A run that says it is done has answered, be it with an empty stream or with the text of an
\* error.  Without an answer are, by the code: a loop that broke off before any tool had run, for
\* which there is no fallback, and one whose fallback could not read its settings (run_agent).
DoneMeansTold == stage = "done" => answers > 0 \/ (broke /\ (~acted \/ unread))

\* The user never gets two answers one after the other.
OneAnswer == answers <= 1

\* After the event is set the language model gets at most one more request: the one whose
\* settings were being read (chat_completion, stream_chat_raw).
LlmStopsOnCancel == askedAfter <= 1

\* The run ends, whatever the model answers.
AgentEnds == stage # "intent" ~> Ended

\* A conversation the language model takes, with one answer at its end, and no request to the model
\* for a reader who has left.
ConversationIsRight == CallsAreAnswered /\ DoneMeansTold /\ OneAnswer /\ LlmStopsOnCancel
=============================================================================
