---------------------------- MODULE OpenCodeDriver ----------------------------
(***************************************************************************)
(* The OpenCode driver: attach, send and interrupt speak HTTP to an owned  *)
(* loopback server, each call on a connection of its own, and read the     *)
(* session's event stream on another. An answer and the events of its turn *)
(* therefore arrive in any order, and a call may fail on either side of    *)
(* its effect. The server is external.                                     *)
(***************************************************************************)
EXTENDS Naturals, Sequences, FiniteSets

CONSTANTS
    OcTurns,   \* number of turns
    OcPrompts, \* bound: prompts posted
    OcStream   \* bound: events the stream holds

VARIABLES
    oc,       \* OpenCodeDriver
    ocCall,   \* the call in progress, and what it has seen of its turn
    ocStream, \* the events of the open stream
    ocServer  \* the server: sessions made, prompts, the answer not yet read

ocVars == <<oc, ocCall, ocStream, ocServer>>

OcNoCall == [op |-> "none", turn |-> 0, at |-> "none", request |-> 0, assistant |-> 0,
             ended |-> FALSE, answer |-> 0]

OcInit ==
    /\ \E stored \in BOOLEAN :
          oc = [stored |-> stored, attached |-> FALSE, portal |-> FALSE, uncertain |-> FALSE,
                active |-> 0, completed |-> 0, poisoned |-> FALSE, stopped |-> FALSE, returned |-> {}]
    /\ ocCall = OcNoCall /\ ocStream = <<>>
    /\ ocServer = [sessions |-> 0, posted |-> 0, turnOf |-> <<>>, working |-> FALSE, answer |-> 0,
                   late |-> FALSE, asked |-> FALSE]

OcIdle == ocCall = OcNoCall /\ ~oc.stopped
OcEnds(c) == oc' = c /\ ocCall' = OcNoCall /\ ocStream' = <<>>
OcPoison == OcEnds([oc EXCEPT !.poisoned = TRUE])

------------------------
\* attach

\* The call may also fail before it has an effect.
RegisterPortal ==
    /\ OcIdle /\ ~oc.poisoned /\ ~oc.portal
    /\ oc' = [oc EXCEPT !.portal = TRUE]
    /\ UNCHANGED <<ocCall, ocStream, ocServer>>

RequireSession ==
    /\ OcIdle /\ ~oc.poisoned /\ oc.portal /\ ~oc.attached /\ oc.stored
    /\ oc' = [oc EXCEPT !.attached = TRUE]
    /\ UNCHANGED <<ocCall, ocStream, ocServer>>

\* guarded_session_creation: the creation is uncertain until its reply was read.
CreateSession ==
    /\ OcIdle /\ ~oc.poisoned /\ oc.portal /\ ~oc.attached /\ ~oc.stored /\ ~oc.uncertain
    /\ oc' = [oc EXCEPT !.uncertain = TRUE]
    /\ ocCall' = [OcNoCall EXCEPT !.op = "create", !.at = "post"]
    /\ UNCHANGED <<ocStream, ocServer>>

\* The request or its reply is lost.
CreateFails == OcEnds(oc)

CreateReply ==
    /\ ocCall.op = "create"
    /\ \E received \in BOOLEAN :
          /\ ocServer' = [ocServer EXCEPT !.sessions = IF received THEN @ + 1 ELSE @]
          /\ \/ CreateFails
             \/ received /\ OcEnds([oc EXCEPT !.uncertain = FALSE, !.attached = TRUE])

------------------------
\* send

\* The answer of a completed turn is given again.
OcRepeats(t) == OcIdle /\ ~oc.poisoned /\ oc.completed = t /\ UNCHANGED ocVars

OcSend(t) ==
    /\ OcIdle /\ ~oc.poisoned /\ oc.completed # t /\ oc.attached /\ oc.active \in {0, t}
    /\ oc' = [oc EXCEPT !.active = t]
    \* the stream is opened before the prompt is posted; without it nothing was asked
    /\ \/ ocCall' = [OcNoCall EXCEPT !.op = "send", !.turn = t, !.at = "post"]
       \/ UNCHANGED ocCall
    /\ UNCHANGED <<ocStream, ocServer>>

PostPrompt ==
    /\ ocCall.op = "send" /\ ocCall.at = "post" /\ ocServer.posted < OcPrompts
    /\ ocServer' = [ocServer EXCEPT !.posted = @ + 1, !.turnOf = Append(@, ocCall.turn),
                                    !.working = TRUE, !.answer = 0]
    /\ ocCall' = [ocCall EXCEPT !.at = "turn"]
    /\ UNCHANGED <<oc, ocStream>>

\* run_turn_transport: the answer, and the events up to the idle one
ReadAnswer ==
    /\ ocCall.at = "turn" /\ ocCall.answer = 0 /\ ocServer.answer # 0
    /\ ocCall' = [ocCall EXCEPT !.answer = ocServer.answer]
    /\ UNCHANGED <<oc, ocStream, ocServer>>

\* EventState.accept
Accepted(event) ==
    CASE event.type = "user" -> [ocCall EXCEPT !.request = IF @ = 0 THEN event.prompt ELSE @]
      [] event.type = "assistant" ->
            [ocCall EXCEPT !.assistant = IF event.prompt = ocCall.request THEN event.prompt ELSE @]
      [] event.type = "ask" -> [ocCall EXCEPT !.at = "ask"]
      [] event.type = "idle" -> [ocCall EXCEPT !.ended = ocCall.request # 0]

ReadEvent ==
    /\ ocCall.at = "turn" /\ ~ocCall.ended /\ ocStream # <<>>
    /\ ocCall' = Accepted(Head(ocStream)) /\ ocStream' = Tail(ocStream)
    /\ UNCHANGED <<oc, ocServer>>

\* requests::handle: a permission or a question is answered in line.
AnswerAsked ==
    /\ ocCall.at = "ask"
    /\ \/ /\ ocServer' = [ocServer EXCEPT !.asked = FALSE]
          /\ ocCall' = [ocCall EXCEPT !.at = "turn"] /\ UNCHANGED <<oc, ocStream>>
       \/ OcPoison /\ UNCHANGED ocServer

\* The deadline, a broken connection, an event out of bounds.
TransportFails == ocCall.op = "send" /\ ocCall.at = "turn" /\ OcPoison /\ UNCHANGED ocServer

\* completed_from_response: the parent of the answer is the message the stream
\* saw, and the assistant message (which names the model) was seen too.
MatchesTurn == ocCall.answer = ocCall.request /\ ocCall.assistant = ocCall.answer

CompletedFromResponse ==
    /\ ocCall.at = "turn" /\ ocCall.answer # 0 /\ ocCall.ended
    /\ \/ /\ MatchesTurn
          /\ OcEnds([oc EXCEPT !.active = 0, !.completed = ocCall.turn,
                               !.returned = @ \cup {<<ocCall.turn, ocCall.answer, ocCall.request>>}])
       \/ ~MatchesTurn /\ OcPoison
    /\ UNCHANGED ocServer

------------------------
\* interrupt

\* The send is dropped; the stream of the interruption is opened before the abort.
OcInterrupt ==
    /\ ocCall.op = "send"
    /\ ocCall' = [OcNoCall EXCEPT !.op = "interrupt", !.turn = ocCall.turn, !.at = "abort"]
    /\ ocStream' = <<>> /\ UNCHANGED <<oc, ocServer>>

\* abort_session: the server is told; the work ends after it.
AbortSession ==
    /\ ocCall.at = "abort"
    /\ ocCall' = [ocCall EXCEPT !.at = "idle"]
    /\ UNCHANGED <<oc, ocStream, ocServer>>

SeenIdle == ocStream # <<>> /\ Head(ocStream).type = "idle"

\* wait_session_idle
SessionIdle ==
    /\ ocCall.at = "idle" /\ SeenIdle
    /\ OcEnds([oc EXCEPT !.active = 0, !.completed = 0]) /\ UNCHANGED ocServer

SkipEvent ==
    /\ ocCall.at = "idle" /\ ocStream # <<>> /\ Head(ocStream).type # "idle"
    /\ ocStream' = Tail(ocStream) /\ UNCHANGED <<oc, ocCall, ocServer>>

\* The abort is refused or the idle event does not come: the caller stops the
\* process (stop_process).
OcStop ==
    /\ ocCall.op = "interrupt" \/ (OcIdle /\ oc.poisoned)
    /\ OcEnds([oc EXCEPT !.stopped = TRUE]) /\ ocServer' = [ocServer EXCEPT !.working = FALSE]

------------------------
\* The server (external)

Streaming == ocCall.at \in {"post", "turn", "ask", "abort", "idle"} /\ ocCall.op \in {"send", "interrupt"}
Emits(type, p) ==
    /\ Streaming /\ Len(ocStream) < OcStream
    /\ ocStream' = Append(ocStream, [type |-> type, prompt |-> p])

\* A message is written, now or again: an earlier message may be touched later.
ServerUpdates(p) ==
    /\ p \in 1..ocServer.posted
    /\ \E type \in {"user", "assistant"} : Emits(type, p)
    /\ UNCHANGED <<oc, ocCall, ocServer>>

ServerAsks ==
    /\ ocServer.working /\ ~ocServer.asked /\ Emits("ask", 0)
    /\ ocServer' = [ocServer EXCEPT !.asked = TRUE] /\ UNCHANGED <<oc, ocCall>>

\* The prompt ends, answered or aborted; an aborted one may report idle again.
PromptEnds ==
    /\ ocServer.working /\ ~ocServer.asked /\ Emits("idle", 0)
    /\ ocServer' = [ocServer EXCEPT !.working = FALSE, !.answer = ocServer.posted,
                                    !.late = ocCall.at = "idle"]
    /\ UNCHANGED <<oc, ocCall>>

ServerAborts ==
    /\ ocCall.at = "idle" /\ ocServer.working /\ Emits("idle", 0)
    /\ ocServer' = [ocServer EXCEPT !.working = FALSE, !.asked = FALSE, !.late = TRUE]
    /\ UNCHANGED <<oc, ocCall>>

\* abort of a session that is not working reports idle as well
ServerRepeatsIdle ==
    /\ ~ocServer.working /\ Emits("idle", 0)
    /\ \/ ocServer.late /\ ocServer' = [ocServer EXCEPT !.late = FALSE]
       \/ ocCall.at = "idle" /\ UNCHANGED ocServer
    /\ UNCHANGED <<oc, ocCall>>

\* The idle report delayed past the abort, while the next prompt runs.
ServerLateIdle ==
    /\ ocServer.working /\ ocServer.late /\ ocCall.op = "send" /\ Emits("idle", 0)
    /\ ocServer' = [ocServer EXCEPT !.late = FALSE] /\ UNCHANGED <<oc, ocCall>>

OcNext ==
    \/ RegisterPortal \/ RequireSession \/ CreateSession \/ CreateReply
    \/ PostPrompt \/ ReadAnswer \/ ReadEvent \/ AnswerAsked \/ TransportFails \/ CompletedFromResponse
    \/ OcInterrupt \/ AbortSession \/ SessionIdle \/ SkipEvent \/ OcStop
    \/ ServerAsks \/ PromptEnds \/ ServerAborts \/ ServerRepeatsIdle \/ ServerLateIdle
    \/ \E t \in 1..OcTurns : OcRepeats(t) \/ OcSend(t)
    \/ \E p \in 1..OcPrompts : ServerUpdates(p)

OcSpec == OcInit /\ [][OcNext]_ocVars

------------------------

\* What OpenCode returns is the answer to the turn's own prompt, read together
\* with that prompt's events although answer and events come on two connections
\* and an earlier turn may still report; a turn that is over leaves the session
\* without a prompt at work; and a session is made at most once, although its
\* reply may be lost.
OpenCodeOwnTurn ==
    /\ \A r \in oc.returned : ocServer.turnOf[r[2]] = r[1] /\ r[3] = r[2]
    /\ oc.active = 0 /\ ~oc.poisoned => ~ocServer.working
    /\ ocServer.sessions <= 1
===============================================================================
