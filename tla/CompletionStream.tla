--------------------------- MODULE CompletionStream ---------------------------
(* A streamed completion of a guest (wr-engine/src/llm.rs): a producer task   *)
(* reads server-sent events from the model provider and sends host events     *)
(* into a bounded channel; the guest reads them one by one with next().       *)
EXTENDS Naturals, Sequences, FiniteSets

CONSTANTS Streams,     \* completion streams the guest of one request opens
          MaxStreams,  \* max_llm_streams: how many of them at a time
          Buffer,      \* capacity of the producer's channel
          MaxEvents    \* bound: events the provider sends on one stream

VARIABLE stream        \* every stream's record

(* told is what next() has returned so far; terminal is terminal_sent.        *)
Unopened == [guest |-> "none", producer |-> "none", pending |-> <<>>, chan |-> <<>>,
             terminal |-> FALSE, events |-> 0, finished |-> FALSE, told |-> {}]

StreamInit == stream = [s \in Streams |-> Unopened]

Live == {s \in Streams : stream[s].guest = "open"}

(* complete_stream: tools, an empty model, no tokens or a temperature out of  *)
(* range are refused before anything is counted or sent.                      *)
RefuseInvalid(s) ==
    /\ stream[s].guest = "none"
    /\ stream' = [stream EXCEPT ![s].guest = "invalid"]

(* The provider cannot be reached or answers with an error status: the place  *)
(* taken for the stream is given back.                                        *)
ProviderRefuses(s) ==
    /\ stream[s].guest = "none" /\ Cardinality(Live) < MaxStreams
    /\ stream' = [stream EXCEPT ![s].guest = "refused"]

CompleteStream(s) ==
    /\ stream[s].guest = "none"
    /\ stream' = IF Cardinality(Live) < MaxStreams
                 THEN [stream EXCEPT ![s].guest = "open", ![s].producer = "reading"]
                 ELSE [stream EXCEPT ![s].guest = "over_limit"]

(* What the provider's bytes are parsed to: nothing (an event without a       *)
(* representation, or data that does not parse), one of the known events, a   *)
(* connection error or invalid frame, or the end of the response.             *)
Parsed == {"nothing", "text_delta", "tool_use_delta", "message_delta",
           "message_stop", "error", "broken", "eof"}

(* A stream that may end without its final delta.                             *)
HostEventsUnchecked(e, terminal) ==
    CASE e = "text_delta"    -> <<"text">>
      [] e = "message_delta" -> <<"usage", "stop">>
      [] e \in {"tool_use_delta", "error", "broken"} -> <<"error">>
      [] OTHER -> <<>>

(* The host events the producer sends for it.                                 *)
HostEvents(e, terminal) ==
    CASE e = "text_delta"    -> <<"text">>
      [] e = "message_delta" -> <<"usage", "stop">>
      [] e \in {"tool_use_delta", "error", "broken"} -> <<"error">>
      [] e \in {"message_stop", "eof"} /\ ~terminal  -> <<"error">>
      [] OTHER -> <<>>

Ends == {"tool_use_delta", "error", "broken", "message_stop", "eof"}

ReadEvent(s) ==
    LET p == stream[s] IN
    /\ p.producer = "reading" /\ p.pending = <<>>
    /\ \E e \in Parsed :
          /\ p.events = MaxEvents => e \in Ends
          /\ stream' = [stream EXCEPT ![s] =
                [p EXCEPT !.events = IF e \in Ends THEN @ ELSE @ + 1,
                          !.pending = HostEvents(e, p.terminal),
                          !.terminal = @ \/ e = "message_delta",
                          !.producer = IF e \in Ends THEN "returning" ELSE @]]

(* A send waits for room.  When the guest has dropped the stream it fails: a  *)
(* text ends the producer, the failure of another event is ignored.           *)
SendEvent(s) ==
    LET p == stream[s]
        rest == [p EXCEPT !.pending = Tail(@)] IN
    /\ p.pending # <<>>
    /\ \/ /\ p.guest = "open" /\ Len(p.chan) < Buffer
          /\ stream' = [stream EXCEPT ![s] = [rest EXCEPT !.chan = Append(@, Head(p.pending))]]
       \/ /\ p.guest = "dropped"
          /\ stream' = [stream EXCEPT ![s] =
                IF Head(p.pending) = "text" THEN [rest EXCEPT !.producer = "returning"] ELSE rest]

ProducerEnds(s) ==
    /\ stream[s].producer = "returning" /\ stream[s].pending = <<>>
    /\ stream' = [stream EXCEPT ![s].producer = "ended"]

(* next(): an event, an error, or the end once the producer is gone and the   *)
(* channel is empty; after an error or the end only the end.                  *)
NextEvent(s) ==
    LET p == stream[s] IN
    /\ p.guest = "open"
    /\ \/ /\ ~p.finished /\ p.chan # <<>>
          /\ stream' = [stream EXCEPT ![s] =
                [p EXCEPT !.chan = Tail(@), !.told = @ \cup {Head(p.chan)},
                          !.finished = Head(p.chan) = "error"]]
       \/ /\ p.finished \/ (p.chan = <<>> /\ p.producer = "ended")
          /\ stream' = [stream EXCEPT ![s].finished = TRUE, ![s].told = @ \cup {"end"}]

(* The guest drops the stream: its place is free, the channel is gone.        *)
DropStream(s) ==
    /\ stream[s].guest = "open"
    /\ stream' = [stream EXCEPT ![s].guest = "dropped", ![s].chan = <<>>]

StreamNext ==
    \E s \in Streams :
       \/ RefuseInvalid(s) \/ ProviderRefuses(s) \/ CompleteStream(s) \/ ReadEvent(s) \/ SendEvent(s) \/ ProducerEnds(s)
       \/ NextEvent(s) \/ DropStream(s)

StreamSpec == StreamInit /\ [][StreamNext]_stream

(* A guest that sees the end of a completion has seen its stop or an error:   *)
(* a provider that closes the connection early, or ends the message without   *)
(* its final delta, never makes a truncated text look complete                *)
(* (llm.rs complete_stream).                                                  *)
EndFollowsStop ==
    \A s \in Streams : "end" \in stream[s].told => stream[s].told \cap {"stop", "error"} # {}

(* docs/host-bindings.md: after the one stop only the end comes.              *)
NothingAfterStop ==
    \A s \in Streams : ~({"stop", "error"} \subseteq stream[s].told)
=============================================================================
