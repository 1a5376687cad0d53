------------------------------ MODULE LlmAnswer ------------------------------
(***************************************************************************)
(* One call of the language model by a provider other than OpenAI          *)
(* (llm/factory.py): the answer is a text that should be a JSON object and *)
(* may be wrapped in a markdown fence.  The text is a sequence of lines,   *)
(* the object one that opens on a line and closes on another.              *)
(***************************************************************************)
EXTENDS Integers, Sequences, FiniteSetsExt

CONSTANT MaxLines  \* a bound of the model

VARIABLES
    structured,  \* whether the caller wants an object
    answer,      \* the lines the model has written so far
    writing,     \* what they are
    reply        \* what ainvoke returned or raised

llmVars == <<structured, answer, writing, reply>>

(* The lines of an answer *)
Fence == "fence"  \* three backticks
JsonFence == "fence_json"
Opening == "opening"  \* the object opens
Closing == "closing"
Blank == "blank"

LlmInit ==
    /\ structured \in BOOLEAN
    /\ answer = <<>>
    /\ writing = "lead"
    /\ reply = "none"

-----------------------------------------------------------------------------
(* What the code makes of an answer *)

StripBlank(lines) ==
    LET solid == {i \in DOMAIN lines : lines[i] # Blank}
    IN  IF solid = {} THEN <<>> ELSE SubSeq(lines, Min(solid), Max(solid))

\* Mutant: the last closing fence, not the first.
StripFence_Greedy(lines) ==
    LET Closings == {c \in 3..Len(lines) : lines[c] = Fence}
    IN  IF Len(lines) > 0 /\ lines[1] \in {Fence, JsonFence} /\ Closings # {}
        THEN SubSeq(lines, 2, Max(Closings) - 1)
        ELSE lines

\* The regular expression: an opening fence on the first line, as many blank lines as
\* leave a line and a closing fence after them, then the first such fence.  What comes
\* after it is dropped; without it nothing is.
StripFence(lines) ==
    LET Closings(skip) == {c \in skip + 3..Len(lines) : lines[c] = Fence}
        Skips == {skip \in 0..Len(lines) :
                     /\ \A i \in 2..skip + 1 : i \in DOMAIN lines /\ lines[i] = Blank
                     /\ Closings(skip) # {}}
    IN  IF Len(lines) > 0 /\ lines[1] \in {Fence, JsonFence} /\ Skips # {}
        THEN SubSeq(lines, Max(Skips) + 2, Min(Closings(Max(Skips))) - 1)
        ELSE lines

\* model_validate_json: the lines of one object.  Blank lines do not matter, anything else does.
Valid(lines) ==
    \E i, j \in DOMAIN lines :
        /\ i < j /\ lines[i] = Opening /\ lines[j] = Closing
        /\ \A k \in DOMAIN lines \ {i, j} : lines[k] = Blank

-----------------------------------------------------------------------------
(* The model writes *)

Write(line, next) ==
    /\ reply = "none"
    /\ Len(answer) < MaxLines
    /\ answer' = Append(answer, line)
    /\ writing' = next
    /\ UNCHANGED <<structured, reply>>

WriteBlank == Write(Blank, writing)
WriteFence ==
    \/ writing = "lead" /\ (Write(Fence, "fenced") \/ Write(JsonFence, "fenced"))
    \/ writing = "fenced_object" /\ Write(Fence, "closed")
WriteObject ==
    \/ writing = "lead" /\ Write(Opening, "open")
    \/ writing = "open" /\ Write(Closing, "object")
    \/ writing = "fenced" /\ Write(Opening, "fenced_open")
    \/ writing = "fenced_open" /\ Write(Closing, "fenced_object")

\* Prose where there should be none, anything at all after a closed fence.
WriteProse ==
    \E line \in {"prose", Fence, Opening} :
        IF writing = "closed" THEN Write(line, "closed") ELSE line = "prose" /\ Write(line, "spoiled")

-----------------------------------------------------------------------------
(* What ainvoke returns *)

\* The call fails, or the response has no choices.
CallFails ==
    /\ reply = "none" /\ answer = <<>>
    /\ reply' = "error"
    /\ UNCHANGED <<structured, answer, writing>>

\* Mutant: an answer that does not parse is returned as it is.
Answered_Raw ==
    /\ reply = "none"
    /\ reply' = IF structured /\ Valid(StripFence(StripBlank(answer))) THEN "object" ELSE "text"
    /\ UNCHANGED <<structured, answer, writing>>

Answered ==
    /\ reply = "none"
    /\ reply' = IF ~structured THEN "text"
                ELSE IF Valid(StripFence(StripBlank(answer))) THEN "object"
                ELSE "error"
    /\ UNCHANGED <<structured, answer, writing>>

LlmNext ==
    \/ WriteBlank
    \/ WriteFence
    \/ WriteObject
    \/ WriteProse
    \/ CallFails
    \/ Answered

LlmSpec == LlmInit /\ [][LlmNext]_llmVars

\* An object the model has finished, fenced or not, is never lost to the caller, whatever
\* it writes after the fence; and what is no object never reaches a caller who wants one.
AnswerRecovered ==
    structured /\ reply # "none" =>
        reply = IF writing \in {"object", "closed"} THEN "object" ELSE "error"
=============================================================================
