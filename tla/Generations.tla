---------------------------- MODULE Generations ----------------------------
(***************************************************************************)
(* The generation panels of the web client (tokenfusionweb,                 *)
(* hooks/useGeneration.ts and components/modules): chat, with its stream    *)
(* of text; video, a task that is polled; image and code, one request.      *)
(*                                                                          *)
(* The tabs show one panel at a time, and a panel starts afresh whenever it *)
(* is shown; the module follows one panel from its mount on.  One action    *)
(* is one event: a click, an answer, a timer, with all the promises that    *)
(* are settled by it.                                                       *)
(***************************************************************************)
EXTENDS Naturals, FiniteSets

CONSTANTS
    Jobs,      \* the generations a user may start
    None,
    MaxPolls,  \* MAX_POLL_COUNT
    MaxText    \* bound on the pieces of text of one answer

ASSUME GenerationsAssumption ==
    /\ None \notin Jobs
    /\ MaxPolls \in Nat \ {0} /\ MaxText \in Nat

VARIABLES
    panel,       \* the panel shown, if any
    mounted,     \* it is still shown
    job,         \* how far each generation has come
    \* useChat:
    streaming,   \* streamingRef, and isStreaming, which follows it
    abortRef,    \* the generation that stopGeneration aborts
    listed,      \* answers among the messages shown
    growing,     \* those of them marked as streaming
    text,        \* the pieces each answer has received
    stopped,     \* auxiliary: stopped, but not yet at their end
    disowned,    \* auxiliary: under way when the end of such a one took abortRef
    \* useVideoGeneration:
    isPolling, timerRef, pollCount, currentTask,
    \* useImageGeneration, useCodeGeneration:
    status

chatVars == <<streaming, abortRef, listed, growing, text, stopped, disowned>>
videoVars == <<isPolling, timerRef, pollCount, currentTask>>
genVars == <<panel, mounted, job, chatVars, videoVars, status>>

Panels == {"chat", "video", "image", "code"}
InChat == {"fetching", "refused", "reading"}

GenInit ==
    /\ panel \in Panels \cup {None}
    /\ mounted = TRUE
    /\ job = [j \in Jobs |-> "new"]
    /\ streaming = FALSE /\ abortRef = None
    /\ listed = {} /\ growing = {}
    /\ stopped = {} /\ disowned = {}
    /\ text = [j \in Jobs |-> 0]
    /\ isPolling = FALSE /\ timerRef = None /\ pollCount = 0 /\ currentTask = None
    /\ status = "idle"

Becomes(j, label) == job' = [job EXCEPT ![j] = label]

\* A user acts on the panel.
On(p) == panel = p /\ mounted

-----------------------------------------------------------------------------
(* Chat.                                                                    *)

\* sendMessage; while a stream is open it returns at once.
Send(j) ==
    /\ On("chat") /\ ~streaming
    /\ job[j] = "new"
    /\ Becomes(j, "fetching")
    /\ streaming' = TRUE /\ abortRef' = j
    /\ listed' = listed \cup {j}
    /\ growing' = growing \cup {j}
    /\ UNCHANGED <<panel, mounted, text, stopped, disowned, videoVars, status>>

\* The head of the response: an error has a body that is still to be read.
Headers(j) ==
    /\ job[j] = "fetching"
    /\ \/ Becomes(j, "reading")
       \/ Becomes(j, "refused")
    /\ UNCHANGED <<panel, mounted, chatVars, videoVars, status>>

\* onChunk: the text goes to the message, if it is still listed.
Chunk(j) ==
    /\ job[j] = "reading"
    /\ text[j] < MaxText
    /\ text' = [text EXCEPT ![j] = IF j \in listed THEN @ + 1 ELSE @]
    /\ UNCHANGED <<panel, mounted, job, streaming, abortRef, listed, growing, stopped, disowned,
                   videoVars, status>>

\* What sendMessage does finally, whichever generation it was.
Settled ==
    /\ streaming' = FALSE /\ abortRef' = None
    /\ growing' = {}

\* The stream is done, or the request fails on its way: the catch clause marks
\* the message, and in both cases the rest is the same.
EndChat(j) ==
    /\ job[j] \in InChat
    /\ Becomes(j, "over")
    /\ Settled
    /\ stopped' = stopped \ {j}
    /\ disowned' = (disowned \cup IF j \in stopped \cup disowned THEN {abortRef} ELSE {})
                   \ {j, None}
    /\ UNCHANGED <<panel, mounted, listed, text, videoVars, status>>

\* Mutant: chat is called without the signal, so that nothing is aborted.
StopUnheard ==
    /\ On("chat") /\ streaming
    /\ streaming' = FALSE /\ growing' = {}
    /\ UNCHANGED <<panel, mounted, job, abortRef, listed, text, stopped, disowned, videoVars, status>>

\* stopGeneration: the fetch, or the read of its body, is rejected at once, and
\* sendMessage runs to its end before the next event.  The reading of the body of
\* an error may come to its end in a later task of the browser.
Stop ==
    /\ On("chat") /\ streaming
    /\ streaming' = FALSE /\ growing' = {}
    /\ \/ /\ Becomes(abortRef, "over")
          /\ abortRef' = None
          /\ UNCHANGED stopped
       \/ /\ job[abortRef] = "refused"
          /\ stopped' = stopped \cup {abortRef}
          /\ UNCHANGED <<job, abortRef>>
    /\ UNCHANGED <<panel, mounted, listed, text, disowned, videoVars, status>>

\* clearChat: a stream that is open goes on unseen.
Clear ==
    /\ On("chat") /\ listed # {}
    /\ listed' = {} /\ growing' = {}
    /\ UNCHANGED <<panel, mounted, job, streaming, abortRef, text, stopped, disowned, videoVars, status>>

-----------------------------------------------------------------------------
(* Video.                                                                   *)

\* generate: the button is there while nothing is under way, but the keyboard
\* asks only whether a generation is being submitted.
Submit(j) ==
    /\ On("video")
    /\ job[j] = "new"
    /\ \A k \in Jobs : job[k] # "submitting"
    /\ Becomes(j, "submitting")
    /\ UNCHANGED <<panel, mounted, chatVars, videoVars, status>>

\* The task is made, and asked about at once.
Submitted(j) ==
    /\ job[j] = "submitting"
    /\ Becomes(j, "polling")
    /\ currentTask' = j
    /\ isPolling' = TRUE
    /\ pollCount' = 0
    /\ UNCHANGED <<panel, mounted, timerRef, chatVars, status>>

SubmitFailed(j) ==
    /\ job[j] = "submitting"
    /\ Becomes(j, "over")
    /\ UNCHANGED <<panel, mounted, chatVars, videoVars, status>>

\* Mutant: only the count itself is the end.
Reached(n) == n = MaxPolls

AtMax(n) == n >= MaxPolls

\* Counts above the maximum are alike.
NextCount == IF pollCount > MaxPolls THEN pollCount ELSE pollCount + 1

\* pollOnce: the task is not done; another timer, for which there is one ref.
Pending(j) ==
    /\ job[j] = "polling"
    /\ ~AtMax(NextCount)
    /\ pollCount' = NextCount
    /\ timerRef' = j
    /\ Becomes(j, "waiting")
    /\ UNCHANGED <<panel, mounted, isPolling, currentTask, chatVars, status>>

\* Mutant: the panel is not told.
GiveUpSilently(j) ==
    /\ job[j] = "polling"
    /\ AtMax(NextCount)
    /\ pollCount' = NextCount
    /\ Becomes(j, "over")
    /\ UNCHANGED <<panel, mounted, isPolling, timerRef, currentTask, chatVars, status>>

\* ... or too many answers have been that.
GiveUp(j) ==
    /\ job[j] = "polling"
    /\ AtMax(NextCount)
    /\ pollCount' = NextCount
    /\ isPolling' = FALSE
    /\ Becomes(j, "over")
    /\ UNCHANGED <<panel, mounted, timerRef, currentTask, chatVars, status>>

\* ... or it is done, has failed, or could not be asked about.
Done(j) ==
    /\ job[j] = "polling"
    /\ isPolling' = FALSE
    /\ Becomes(j, "over")
    /\ UNCHANGED <<panel, mounted, timerRef, pollCount, currentTask, chatVars, status>>

Answered(j) == Pending(j) \/ GiveUp(j) \/ Done(j)

Fire(j) ==
    /\ job[j] = "waiting"
    /\ Becomes(j, "polling")
    /\ UNCHANGED <<panel, mounted, chatVars, videoVars, status>>

\* stopTimer, and the cleanup of the panel: the timer of one loop, if it waits.
TimerStopped ==
    job' = [j \in Jobs |-> IF j = timerRef /\ job[j] = "waiting" THEN "over" ELSE job[j]]

\* cancelPolling: an answer that is awaited starts the timer again.
Cancel ==
    /\ On("video")
    /\ isPolling \/ \E j \in Jobs : job[j] = "submitting"
    /\ TimerStopped
    /\ timerRef' = None
    /\ isPolling' = FALSE
    /\ UNCHANGED <<panel, mounted, pollCount, currentTask, chatVars, status>>

-----------------------------------------------------------------------------
(* Image and code.                                                          *)

\* handleGenerate of either panel: not while a generation is loading.
MayGenerate == (On("image") \/ On("code")) /\ status # "loading"

Generate(j) ==
    /\ MayGenerate
    /\ job[j] = "new"
    /\ Becomes(j, "loading")
    /\ status' = "loading"
    /\ UNCHANGED <<panel, mounted, chatVars, videoVars>>

Generated(j) ==
    /\ job[j] = "loading"
    /\ Becomes(j, "over")
    /\ status' \in {"success", "error"}
    /\ UNCHANGED <<panel, mounted, chatVars, videoVars>>

-----------------------------------------------------------------------------

\* Another tab: what is under way goes on, but for the timer.
Leave ==
    /\ panel # None /\ mounted
    /\ mounted' = FALSE
    /\ TimerStopped
    /\ UNCHANGED <<panel, chatVars, videoVars, status>>

GenNext ==
    \/ \E j \in Jobs :
         \/ Send(j) \/ Headers(j) \/ Chunk(j) \/ EndChat(j)
         \/ Submit(j) \/ Submitted(j) \/ SubmitFailed(j) \/ Answered(j) \/ Fire(j)
         \/ Generate(j) \/ Generated(j)
    \/ Stop \/ Clear \/ Cancel \/ Leave

\* A query ends, if only by a time limit of the browser, and timers fire.
GenFairness == \A j \in Jobs : WF_genVars(Answered(j)) /\ WF_genVars(Fire(j))

-----------------------------------------------------------------------------
(* Properties.                                                              *)

\* One answer at a time, and the panel knows which (useGeneration.ts:136-262): a
\* request that is open, or a stream that is read, is the one that the stop
\* button aborts, through stops, clears, failures and new messages.  The finally
\* clause clears abortRef whosever it is (useGeneration.ts:238-245): only one that
\* was stopped in the middle of an error may thereby disown the next.
OneStream ==
    \A j \in Jobs : job[j] \in InChat /\ j \notin stopped \cup disowned =>
        streaming /\ abortRef = j

\* While the video panel says that it is polling, the task it was asked for last
\* is polled (useGeneration.ts:418-528), although older loops may run beside it
\* that share its timer, its count and this flag.
PollingShown ==
    isPolling /\ mounted => job[currentTask] \in {"polling", "waiting"}

\* Every loop ends (useGeneration.ts:394-395, 448-453), those that outlive a
\* cancellation or their panel too, although each new task sets the count that
\* all of them share back to zero.
PollingEnds ==
    \A j \in Jobs : job[j] \in {"polling", "waiting"} ~> job[j] = "over"
=============================================================================
