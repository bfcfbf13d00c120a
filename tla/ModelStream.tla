------------------------------ MODULE ModelStream ------------------------------
(* One call of a model: the request is tried with one key after another        *)
(* (providers/http.ts), and the stream of its answer is read frame by frame    *)
(* (sse.ts, openai.ts, anthropic.ts) until the agent loop has a whole answer   *)
(* or an error (agent/loop.ts).  The provider is outside the repository: it    *)
(* may refuse, break off anywhere, and finish its stream carelessly, but it    *)
(* asks for its tools only when their arguments have been sent.  Words and     *)
(* arguments are pieces of which only the order matters.                       *)
EXTENDS Integers, Sequences, SequencesExt

CONSTANTS KeyCount,   \* how many API keys the connection has
          MaxPieces,  \* how many pieces of text the provider sends
          MaxCalls    \* how many tools it calls

ASSUME ModelAssumption ==
  KeyCount \in Nat \ {0} /\ MaxPieces \in Nat /\ MaxCalls \in Nat

VARIABLES
  dialect,     \* the wire protocol, and whether thoughts come in <think> tags
  modelPhase,  \* where the call is
  keyRing,     \* the key in use and how often it was given up (KeyRing)
  tries,       \* the attempts made (withRetry's i)
  keyFates,    \* what each key has been answered in this call
  spoken,      \* the pieces of text the provider has sent
  splitter,    \* ThinkTagSplitter: inside a thought, holding back a "<"
  textOut,     \* the text deltas shown and kept for the answer
  thoughtOut,  \* the same for the thoughts
  partials,    \* how much of each tool call has arrived
  ending,      \* the finish reason the provider gave
  sealed,      \* its terminal marker came
  outcome      \* the answer's stop reason, or why there is none

modelVars == <<dialect, modelPhase, keyRing, tries, keyFates, spoken, splitter, textOut,
               thoughtOut, partials, ending, sealed, outcome>>
askVars == <<keyRing, tries, keyFates>>
readVars == <<spoken, splitter, textOut, thoughtOut, partials, ending, sealed>>

Mark == "<"
Opener == "think>"
Closer == "/think>"
Pieces == {"word", Mark, Opener, Closer}
RefusalKinds == {"auth", "rate_limit", "overloaded", "network", "protocol", "context_too_long"}
FinishReasons == {"stop", "tool_calls", "length", "content_filter", "other"}
Unset == "unset"

ModelTypeOK ==
  /\ dialect \in [wire : {"openai", "anthropic"}, tags : BOOLEAN]
  /\ modelPhase \in {"asking", "waiting", "reading", "answered", "failed", "aborted"}
  /\ keyRing \in [at : 1..KeyCount, failures : 0..KeyCount]
  /\ tries \in Nat
  /\ keyFates \in [1..KeyCount -> SUBSET RefusalKinds]
  /\ \A s \in {spoken, textOut, thoughtOut} : s \in Seq(Pieces)
  /\ splitter \in [inside : BOOLEAN, held : BOOLEAN]
  /\ partials \in [1..MaxCalls -> {"none", "begun", "whole"}]
  /\ ending \in FinishReasons \cup {Unset}
  /\ sealed \in BOOLEAN

ModelInit ==
  /\ dialect \in {[wire |-> "openai", tags |-> TRUE], [wire |-> "openai", tags |-> FALSE],
                  [wire |-> "anthropic", tags |-> FALSE]}
  /\ modelPhase = "asking"
  /\ keyRing = [at |-> 1, failures |-> 0]
  /\ tries = 0
  /\ keyFates = [k \in 1..KeyCount |-> {}]
  /\ spoken = <<>> /\ textOut = <<>> /\ thoughtOut = <<>>
  /\ splitter = [inside |-> FALSE, held |-> FALSE]
  /\ partials = [i \in 1..MaxCalls |-> "none"]
  /\ ending = Unset /\ sealed = FALSE
  /\ outcome = Unset

(****************************************************************************)
(* The request.                                                               *)
(****************************************************************************)
\* normalizeHttpError: what a refusal is taken for.
Refusal(status, says) ==
  CASE says = "too long" /\ status \in {400, 413, 422} -> "context_too_long"
    [] status \in {401, 403} -> "auth"
    [] status = 429 -> "rate_limit"
    [] status \in 500..599 -> "overloaded"
    [] OTHER -> "protocol"

\* What a request that is not answered with a stream ends as.
Refusals == {Refusal(s, "") : s \in {401, 403, 402, 404, 429, 500, 503}}
              \cup {Refusal(413, "too long"), "network"}

MaxTries == IF KeyCount > 4 THEN KeyCount ELSE 4

\* advance: the next key, unless every key has been given up once; from then on the
\* count of failures no longer matters and stays at KeyCount.
Advances(r) == r.failures + 1 < KeyCount
MayAdvance(r) == Advances(r)
GiveUpKey(r) ==
  IF MayAdvance(r) THEN [at |-> (r.at % KeyCount) + 1, failures |-> r.failures + 1]
  ELSE [r EXCEPT !.failures = KeyCount]

Fail(why) == modelPhase' = "failed" /\ outcome' = why

\* An attempt is refused: another key, a pause, or an error, by its kind.
Refused(kind) ==
  /\ modelPhase = "asking"
  /\ tries' = tries + 1
  /\ keyFates' = [keyFates EXCEPT ![keyRing.at] = @ \cup {kind}]
  /\ \/ /\ tries + 1 = MaxTries \/ kind \in {"protocol", "context_too_long"}
        /\ Fail(kind)
        /\ UNCHANGED keyRing
     \/ /\ tries + 1 < MaxTries /\ kind \in {"auth", "rate_limit", "overloaded"}
        /\ keyRing' = GiveUpKey(keyRing)
        /\ IF MayAdvance(keyRing) THEN UNCHANGED <<modelPhase, outcome>>
           ELSE IF kind = "auth" THEN Fail(kind)
           ELSE modelPhase' = "waiting" /\ UNCHANGED outcome
     \/ /\ tries + 1 < MaxTries /\ kind = "network"
        /\ modelPhase' = "waiting"
        /\ UNCHANGED <<keyRing, outcome>>
  /\ UNCHANGED <<dialect, readVars>>

BackOff ==
  /\ modelPhase = "waiting"
  /\ modelPhase' = "asking"
  /\ UNCHANGED <<dialect, askVars, readVars, outcome>>

\* The stream opens: the ring is reset, and the loop over the attempts is left.
Opens ==
  /\ modelPhase = "asking"
  /\ modelPhase' = "reading"
  /\ keyRing' = [keyRing EXCEPT !.failures = 0]
  /\ tries' = 0
  /\ keyFates' = [k \in 1..KeyCount |-> {}]
  /\ UNCHANGED <<dialect, readVars, outcome>>

\* The user stops the turn: the request, the pause or the reading ends at once.
AbortCall ==
  /\ modelPhase \in {"asking", "waiting", "reading"}
  /\ modelPhase' = "aborted"
  /\ UNCHANGED <<dialect, askVars, readVars, outcome>>

(****************************************************************************)
(* The stream.                                                                *)
(****************************************************************************)
\* ThinkTagSplitter.feed: what leaves the splitter when a piece arrives.
Fed(s, p) ==
  LET tag == s.held /\ p = (IF s.inside THEN Closer ELSE Opener)
      out == IF tag THEN <<>>
             ELSE (IF s.held THEN <<Mark>> ELSE <<>>) \o (IF p = Mark THEN <<>> ELSE <<p>>)
  IN [inside |-> IF tag THEN ~s.inside ELSE s.inside, held |-> p = Mark, out |-> out]

\* After Anthropic's message_stop every further event is an error.
Open == modelPhase = "reading" /\ ~sealed

\* OpenAI's text goes through the splitter when thoughts come in tags.
OpenAiText(p) ==
  /\ dialect.wire = "openai"
  /\ IF dialect.tags
     THEN LET f == Fed(splitter, p) IN
          /\ splitter' = [inside |-> f.inside, held |-> f.held]
          /\ textOut' = IF splitter.inside THEN textOut ELSE textOut \o f.out
          /\ thoughtOut' = IF splitter.inside THEN thoughtOut \o f.out ELSE thoughtOut
     ELSE textOut' = Append(textOut, p) /\ UNCHANGED <<splitter, thoughtOut>>

AnthropicText(p) ==
  /\ dialect.wire = "anthropic"
  /\ textOut' = Append(textOut, p)
  /\ UNCHANGED <<splitter, thoughtOut>>

HearText(p) ==
  /\ Open /\ ending = Unset /\ Len(spoken) < MaxPieces
  /\ spoken' = Append(spoken, p)
  /\ OpenAiText(p) \/ AnthropicText(p)
  /\ UNCHANGED <<dialect, modelPhase, askVars, partials, ending, sealed, outcome>>

\* A part of a tool call: its start with the name, then the rest of its arguments.
CallStarts(i) == partials[i] = "none" /\ \A j \in 1..(i - 1) : partials[j] # "none"
CallGrows(i) == partials[i] = "begun"

HearCall(i) ==
  /\ Open /\ ending = Unset
  /\ \/ CallStarts(i) /\ partials' = [partials EXCEPT ![i] = "begun"]
     \/ CallGrows(i) /\ partials' = [partials EXCEPT ![i] = "whole"]
  /\ UNCHANGED <<dialect, modelPhase, askVars, spoken, splitter, textOut, thoughtOut, ending,
                 sealed, outcome>>

CallsMade == {i \in 1..MaxCalls : partials[i] # "none"}
AllWhole == \A i \in CallsMade : partials[i] = "whole"

\* Reasons the provider may give: tools only once their arguments are sent, a length
\* or a filter anywhere.
Truthful(f) ==
  CASE f = "tool_calls" -> CallsMade # {} /\ AllWhole
    [] f = "stop" -> AllWhole
    [] OTHER -> TRUE

\* The finish reason: a second one must repeat it, and OpenAI's must be a known one.
Contradicts(f) == ending # Unset /\ ending # f
OpenAiKnows(f) == f # "other"

Ends(f, accepted) ==
  /\ Open
  /\ ending = Unset => Truthful(f)
  /\ IF accepted THEN ending' = f /\ UNCHANGED <<modelPhase, outcome>>
     ELSE Fail("protocol") /\ UNCHANGED ending
  /\ UNCHANGED <<dialect, askVars, spoken, splitter, textOut, thoughtOut, partials, sealed>>

HearFinishReason(f) == dialect.wire = "openai" /\ Ends(f, OpenAiKnows(f) /\ ~Contradicts(f))
HearStopReason(f) == dialect.wire = "anthropic" /\ Ends(f, ~Contradicts(f))

\* An error frame, a lost connection, or an event after message_stop.
BreaksOff ==
  /\ modelPhase = "reading"
  /\ Fail("stream")
  /\ UNCHANGED <<dialect, askVars, readVars>>

StopReason(f) ==
  CASE f = "stop" -> "end"
    [] f = "tool_calls" -> "tool_use"
    [] f = "length" -> "max_tokens"
    [] f = "content_filter" -> "content_filter"
    [] OTHER -> "unsupported"

\* The checks after the last frame: something was recognised, the terminal marker and
\* a finish reason came, and the loop's: tools are called exactly when it says so.
Complete(done) ==
  done /\ ending # Unset /\ StopReason(ending) # "unsupported"
MutAnyEnd(done) == TRUE
EndAccepted(done) == Complete(done)
Agrees == (ending = "tool_calls") <=> (CallsMade # {})

Conclude(done) ==
  IF EndAccepted(done) /\ Agrees
  THEN modelPhase' = "answered" /\ outcome' = StopReason(ending)
  ELSE Fail("protocol")

\* OpenAI's [DONE] ends the reading; Anthropic's message_stop only marks it.
HearDone ==
  /\ Open /\ dialect.wire = "openai"
  /\ sealed' = TRUE
  /\ Conclude(TRUE)
  /\ UNCHANGED <<dialect, askVars, spoken, splitter, textOut, thoughtOut, partials, ending>>

HearMessageStop ==
  /\ Open /\ dialect.wire = "anthropic"
  /\ sealed' = TRUE
  /\ UNCHANGED <<dialect, modelPhase, askVars, spoken, splitter, textOut, thoughtOut, partials,
                 ending, outcome>>

BodyEnds ==
  /\ modelPhase = "reading"
  /\ Conclude(sealed)
  /\ UNCHANGED <<dialect, askVars, readVars>>

ModelNext ==
  \/ \E kind \in Refusals : Refused(kind)
  \/ BackOff
  \/ Opens
  \/ AbortCall
  \/ \E p \in Pieces : HearText(p)
  \/ \E i \in 1..MaxCalls : HearCall(i)
  \/ \E f \in FinishReasons : HearFinishReason(f)
  \/ \E f \in FinishReasons : HearStopReason(f)
  \/ BreaksOff
  \/ HearDone
  \/ HearMessageStop
  \/ BodyEnds

ModelSpec == ModelInit /\ [][ModelNext]_modelVars

(****************************************************************************)
(* Properties.                                                                *)
(****************************************************************************)
\* The whole text split at once: which pieces stand inside a thought, and which two
\* make a tag.
Inside(w) ==
  LET in[n \in 0..Len(w)] ==
        IF n < 2 THEN FALSE
        ELSE IF w[n - 1] = Mark /\ w[n] = (IF in[n - 1] THEN Closer ELSE Opener)
             THEN ~in[n - 1] ELSE in[n - 1]
  IN in
InTag(w, n) ==
  \/ n > 1 /\ Inside(w)[n] # Inside(w)[n - 1]
  \/ n < Len(w) /\ Inside(w)[n + 1] # Inside(w)[n]
Split(w, thought) ==
  LET upTo[n \in 0..Len(w)] ==
        IF n = 0 THEN <<>>
        ELSE IF InTag(w, n) \/ Inside(w)[n] # thought THEN upTo[n - 1]
        ELSE Append(upTo[n - 1], w[n])
  IN upTo[Len(w)]

\* An answer is acted on only when it is the provider's whole answer: it said it was
\* done and why, the tools are called exactly when that is the reason, with all of
\* their arguments, and the text and the thoughts shown on the way are the whole text
\* split at its tags, but for a "<" the splitter still holds (openai.ts run, final;
\* anthropic.ts run, final; loop.ts:523).
AnswerIsWhole ==
  modelPhase = "answered" =>
    /\ sealed /\ ending # Unset
    /\ (outcome = "tool_use") <=> (CallsMade # {})
    /\ AllWhole
    /\ LET w == IF splitter.held THEN Front(spoken) ELSE spoken IN
       IF dialect.tags THEN textOut = Split(w, FALSE) /\ thoughtOut = Split(w, TRUE)
       ELSE textOut = spoken

\* A key that was refused as invalid is not asked again in the same call
\* (createKeyRing, withRetry).
RefusedKeyNotReused ==
  modelPhase \in {"asking", "waiting"} => "auth" \notin keyFates[keyRing.at]

\* A call asks with keys that may still work, and is answered in whole or not at all.
ProviderHeardRight == RefusedKeyNotReused /\ AnswerIsWhole
=============================================================================
