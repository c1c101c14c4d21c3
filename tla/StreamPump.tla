----------------------------- MODULE StreamPump -----------------------------
(* One streamed request of the auth plugin (authplugin/executor.go).         *)
(* executeUpstreamStream opens the provider's stream and starts a goroutine, *)
(* the pump, that reads pieces of text, puts the lines together and emits    *)
(* their events to the host's stream.  Every call to the host is one action, *)
(* since the host, the provider and the client act between two of them.  A   *)
(* line is its kind and, for an event, its number; a piece of text completes *)
(* lines and may leave one unfinished.                                       *)
EXTENDS Naturals, Sequences

CONSTANTS
  MaxLines,     \* bound: lines the provider sends
  MaxPiece      \* bound: lines that one piece of text begins

ASSUME PumpAssumption == MaxLines \in Nat /\ MaxPiece \in Nat

VARIABLES
  starter,      \* executeUpstreamStream: "idle", "opening", "draining" or what it returned
  pump,         \* the goroutine: "none", "read", "lines", "close", "release" or "gone"
  upstream,     \* the provider's stream: "none", "open", "closed", or "unnamed" in the host
  client,       \* the host's stream: "open", "ok" or "error"
  buffer,       \* lines received and not handled yet, the last one perhaps unfinished
  unfinished,
  done,         \* the last piece said Done
  failure,      \* emitFailure
  out,          \* events emitted
  begun, sent,  \* lines and events the provider has begun (history)
  closed        \* how often each stream was closed (history)

pumpVars == <<starter, pump, upstream, client, buffer, unfinished, done, failure, out,
              begun, sent, closed>>
textVars == <<buffer, unfinished, done, begun, sent>>

\* "skip" stands for the blank, comment and field lines, for empty data and for
\* [DONE]; "error" for a JSON body where an event was expected.
Kind == {"event", "skip", "error"}

PumpInit ==
  /\ starter = "idle" /\ pump = "none"
  /\ upstream = "none" /\ client = "open"
  /\ buffer = <<>> /\ unfinished = FALSE /\ done = FALSE /\ failure = FALSE
  /\ out = <<>> /\ begun = 0 /\ sent = 0
  /\ closed = [upstream |-> 0, client |-> 0]

-----------------------------------------------------------------------------
(* executeUpstreamStream *)

\* No host, no stream id, or no usable credential.
Refuse ==
  /\ starter = "idle"
  /\ starter' = "error"
  /\ UNCHANGED <<pump, upstream, client, textVars, failure, out, closed>>

Open ==
  /\ starter = "idle"
  /\ starter' = "opening"
  /\ UNCHANGED <<pump, upstream, client, textVars, failure, out, closed>>

\* The call fails, or a good status comes without a stream id.
OpenFails ==
  /\ starter = "opening"
  /\ starter' = "error"
  /\ UNCHANGED <<pump, upstream, client, textVars, failure, out, closed>>

\* The answer cannot be decoded: a stream that the host has opened has no name here, and
\* nobody closes it.
AnswerUnreadable ==
  /\ starter = "opening"
  /\ upstream' \in {"none", "unnamed"}
  /\ starter' = "error"
  /\ UNCHANGED <<pump, client, textVars, failure, out, closed>>

\* An error status without a stream: drainHTTPStream has nothing to read.
StatusWithoutStream ==
  /\ starter = "opening"
  /\ starter' = "error"
  /\ UNCHANGED <<pump, upstream, client, textVars, failure, out, closed>>

\* An error status and a stream: its body is read for the message.
StatusError ==
  /\ starter = "opening"
  /\ upstream' = "open"
  /\ starter' = "draining"
  /\ UNCHANGED <<pump, client, textVars, failure, out, closed>>

ForgetUpstream == UNCHANGED <<upstream, closed>>                  \* (mutant)
ReleaseUpstream ==
  /\ upstream' = "closed"
  /\ closed' = [closed EXCEPT !.upstream = @ + 1]

\* drainHTTPStream: Done, an error or 64 KiB end it, and the stream is closed.
Drained ==
  /\ starter = "draining"
  /\ ReleaseUpstream
  /\ starter' = "error"
  /\ UNCHANGED <<pump, client, textVars, failure, out>>

\* The pump is started before the response is returned and may be ahead of it.
StartPump ==
  /\ starter = "opening"
  /\ upstream' = "open"
  /\ pump' = "read"
  /\ starter' = "starting"
  /\ UNCHANGED <<client, textVars, failure, out, closed>>

ReturnStream ==
  /\ starter = "starting"
  /\ starter' = "stream"
  /\ UNCHANGED <<pump, upstream, client, textVars, failure, out, closed>>

-----------------------------------------------------------------------------
(* pumpUpstreamStream *)

Line(from, to) == [kind : Kind, id : from..to]

\* Each line carries the number of events up to it, where n came before.
Numbered(lines, n) ==
  \A i \in DOMAIN lines :
    lines[i].id = (IF i = 1 THEN n ELSE lines[i - 1].id) + (IF lines[i].kind = "event" THEN 1 ELSE 0)
LastNumber(lines, n) == IF lines = <<>> THEN n ELSE lines[Len(lines)].id

\* A piece of text: it may finish the unfinished line and begin others, the last
\* of which it may leave unfinished.
ReadPiece ==
  /\ pump = "read"
  /\ \E next \in sent..(sent + MaxPiece), size \in 0..MaxPiece, ends, stays, last \in BOOLEAN :
       \E lines \in [1..size -> Line(sent, next)] :
         /\ Numbered(lines, sent) /\ LastNumber(lines, sent) = next
         /\ begun + size <= MaxLines
         /\ ends => unfinished
         /\ size > 0 => ends = unfinished
         /\ stays => size > 0
         /\ size > 0 \/ ends \/ last
         /\ buffer' = buffer \o lines
         /\ unfinished' = (stays \/ (unfinished /\ ~ends))
         /\ begun' = begun + size
         /\ sent' = next
         /\ done' = last
  /\ pump' = "lines"
  /\ UNCHANGED <<starter, upstream, client, failure, out, closed>>

ReadFails ==
  /\ pump = "read"
  /\ failure' = TRUE
  /\ pump' = "close"
  /\ UNCHANGED <<starter, upstream, client, textVars, out, closed>>

CompleteLines == IF unfinished THEN Len(buffer) - 1 ELSE Len(buffer)
DropUnfinished == CompleteLines                                   \* (mutant)
\* What Done leaves is handled as a line too.
Handled == IF done THEN Len(buffer) ELSE CompleteLines

TakeLine ==
  /\ pump = "lines" /\ ~failure
  /\ Handled > 0
  /\ buffer' = Tail(buffer)
  /\ unfinished' = (unfinished /\ Len(buffer) > 1)
  /\ UNCHANGED <<done, begun, sent>>

\* emitSSELine: an event goes out, unless the host refuses it.
EmitEvent ==
  /\ TakeLine
  /\ Head(buffer).kind = "event"
  /\ out' = Append(out, Head(buffer).id)
  /\ UNCHANGED <<starter, pump, upstream, client, failure, closed>>

CarryOn == FALSE                                                  \* (mutant)
GiveUp == TRUE

EmitFails ==
  /\ TakeLine
  /\ Head(buffer).kind = "event"
  /\ failure' = GiveUp
  /\ UNCHANGED <<starter, pump, upstream, client, out, closed>>

SkipLine ==
  /\ TakeLine
  /\ Head(buffer).kind = "skip"
  /\ UNCHANGED <<starter, pump, upstream, client, failure, out, closed>>

ErrorLine ==
  /\ TakeLine
  /\ Head(buffer).kind = "error"
  /\ failure' = TRUE
  /\ UNCHANGED <<starter, pump, upstream, client, out, closed>>

\* No complete line is left: read on, or end.
NextRound ==
  /\ pump = "lines"
  /\ failure \/ Handled = 0
  /\ pump' = IF failure \/ done THEN "close" ELSE "read"
  /\ UNCHANGED <<starter, upstream, client, textVars, failure, out, closed>>

\* closePluginStream
CloseClient ==
  /\ pump = "close"
  /\ client' = IF failure THEN "error" ELSE "ok"
  /\ closed' = [closed EXCEPT !.client = @ + 1]
  /\ pump' = "release"
  /\ UNCHANGED <<starter, upstream, textVars, failure, out>>

\* The deferred closeHTTPStream.
Release ==
  /\ pump = "release"
  /\ ReleaseUpstream
  /\ pump' = "gone"
  /\ UNCHANGED <<starter, client, textVars, failure, out>>

Over ==
  /\ starter = "error" \/ (starter = "stream" /\ pump = "gone")
  /\ UNCHANGED pumpVars

StarterStep ==
  \/ OpenFails \/ AnswerUnreadable \/ StatusWithoutStream \/ StatusError
  \/ Drained \/ StartPump \/ ReturnStream
PumpStep ==
  \/ ReadPiece \/ ReadFails \/ EmitEvent \/ EmitFails \/ SkipLine \/ ErrorLine
  \/ NextRound \/ CloseClient \/ Release

PumpNext == Refuse \/ Open \/ StarterStep \/ PumpStep \/ Over

PumpSpec == PumpInit /\ [][PumpNext]_pumpVars

\* Once the host has asked for a stream, both goroutines are scheduled and the host
\* answers their calls; the provider ends its stream, here after MaxLines lines at
\* the latest.
PumpFairness == WF_pumpVars(StarterStep) /\ WF_pumpVars(PumpStep)

-----------------------------------------------------------------------------
(* Properties *)

Promise == INSTANCE LineStream WITH verdict <- client

\* The client receives the provider's events in order, and a stream that is closed
\* without an error has delivered all of them, also the last, unterminated one.
DeliversTheStream == Promise!Spec

\* The host is told of an error, or it gets a stream that the pump feeds, never
\* both: after an error nothing is emitted and the provider's stream is released, if the
\* plugin was told of it.
\* Neither stream is closed twice, and none outlives the pump.
ErrorOrStream ==
  /\ starter = "error" =>
       pump = "none" /\ out = <<>> /\ client = "open" /\ upstream # "open"
  /\ closed.upstream <= 1 /\ closed.client <= 1
  /\ pump = "gone" => upstream = "closed" /\ client # "open"

\* A stream that was handed to the host is closed in the end, and so is the
\* provider's.
StreamsEnd == upstream = "open" ~> upstream = "closed" /\ (pump = "none" \/ client # "open")
=============================================================================
