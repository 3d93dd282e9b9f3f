---------------------------- MODULE GuestRequests ----------------------------
(* One engine serving HTTP requests with guest code: the inbound server, the *)
(* module's request channel, the shared pool of instances and the streamed   *)
(* response (wr-engine/src/server.rs, engine.rs, runtime.rs, state.rs).      *)
(*                                                                           *)
(* Four tasks meet in one request: the connection that waits for the answer  *)
(* (client), the module's handler (stage), the task that owns the guest's    *)
(* store and instance permit (task), and the response body the connection    *)
(* polls (body).  They talk over one-shot channels: the response outparam    *)
(* (resp), the guest's completion (comp) and the release of the permit       *)
(* (released).  Frames travel through a bounded pipe (frames, end).          *)
EXTENDS Naturals, Sequences, Functions

CONSTANTS Wire,       \* requests that arrive on the engine's HTTP listener
          Internal,   \* requests of the engine itself: jobs and health probes
          Calls,      \* pairs <<r, q>>: the guest of r may make the wire request q
          Capacity,   \* channel_capacity of the module
          Pipe        \* frames the response pipe holds

ASSUME GuestAssumption ==
    /\ Wire \cap Internal = {}
    /\ Calls \subseteq (Wire \cup Internal) \X Wire
    /\ Capacity \in Nat \ {0} /\ Pipe \in Nat \ {0}

VARIABLES gate,   \* is the engine's workload admission open
          chan,   \* the module's request channel
          rx,     \* its receiver: "open", "closing" or "ended"
          free,   \* permits left in the instance pool
          req     \* every request's record

guestVars == <<gate, chan, rx, free, req>>

Requests == Wire \cup Internal

Called == {c[2] : c \in Calls}

Unsent == [client |-> "idle", stage |-> "none", task |-> "none", resp |-> "unset",
           comp |-> "pending", verdict |-> "none", body |-> "none",
           released |-> FALSE, frames |-> 0, end |-> "open"]

(* Of all requests those of traffic come, to an engine with this many        *)
(* instances.                                                                *)
GuestInit(traffic, instances) ==
    /\ gate = TRUE /\ chan = <<>> /\ rx = "open" /\ free = instances
    /\ req = [r \in Requests |->
                IF r \in traffic THEN Unsent ELSE [Unsent EXCEPT !.client = "absent"]]

Becomes(r, q) == req' = [req EXCEPT ![r] = q]

(* The answer reaches the connection if it still waits for it.               *)
Told(r, answer) == IF req[r].client = "waiting" THEN answer ELSE req[r].client

(* Dropping a response body releases the owner of the store and aborts it;   *)
(* a task that has ended is not touched.                                     *)
DroppedBody(q) ==
    [q EXCEPT !.body = "dropped", !.released = TRUE, !.task = IF @ = "ended" THEN @ ELSE "aborting"]

(* The connection of a request goes away: before the headers only the        *)
(* receiver of the answer is dropped, and nobody tells the guest.            *)
Left(q) ==
    CASE q.client \in {"entered", "waiting"} -> [q EXCEPT !.client = "gone"]
      [] q.client = "streaming" -> [DroppedBody(q) EXCEPT !.client = "gone"]
      [] OTHER -> q

-----------------------------------------------------------------------------
(* The server                                                                *)

(* A wire request passes the admission gate, or is refused with 503.         *)
Enter(r) ==
    /\ r \in Wire \ Called
    /\ req[r].client = "idle"
    /\ Becomes(r, [req[r] EXCEPT !.client = IF gate THEN "entered" ELSE "refused"])
    /\ UNCHANGED <<gate, chan, rx, free>>

(* handle: try_send never waits for room in the channel.                     *)
Enqueue(r) ==
    /\ req[r].client = "entered"
    /\ \/ /\ rx = "open" /\ Len(chan) < Capacity
          /\ chan' = Append(chan, r)
          /\ Becomes(r, [req[r] EXCEPT !.client = "waiting", !.stage = "queued"])
       \/ /\ rx = "open" /\ Len(chan) >= Capacity
          /\ Becomes(r, [req[r] EXCEPT !.client = "too_many"])
          /\ UNCHANGED chan
       \/ /\ rx # "open"
          /\ Becomes(r, [req[r] EXCEPT !.client = "unavailable"])
          /\ UNCHANGED chan
    /\ UNCHANGED <<gate, rx, free>>

(* A job or a health probe is sent into the channel directly and waits for   *)
(* room in it.                                                               *)
Send(r) ==
    /\ r \in Internal
    /\ req[r].client = "idle"
    /\ \/ /\ rx = "open" /\ Len(chan) < Capacity
          /\ chan' = Append(chan, r)
          /\ Becomes(r, [req[r] EXCEPT !.client = "waiting", !.stage = "queued"])
       \/ /\ rx # "open"
          /\ Becomes(r, [req[r] EXCEPT !.client = "unavailable"])
          /\ UNCHANGED chan
    /\ UNCHANGED <<gate, rx, free>>

(* The caller goes: a connection is reset, a job's or probe's own timeout.   *)
Leave(r) ==
    /\ r \notin Called
    /\ req[r].client \in {"entered", "waiting", "streaming"}
    /\ Becomes(r, Left(req[r]))
    /\ UNCHANGED <<gate, chan, rx, free>>

-----------------------------------------------------------------------------
(* The module's handler task                                                 *)

(* Every request taken from the channel gets a task of its own at once; the  *)
(* channel is emptied in the same way after cancellation has closed it.      *)
Receive ==
    /\ rx # "ended" /\ chan # <<>>
    /\ chan' = Tail(chan)
    /\ Becomes(Head(chan), [req[Head(chan)] EXCEPT !.stage = "acquire"])
    /\ UNCHANGED <<gate, rx, free>>

CloseGate ==
    /\ gate
    /\ gate' = FALSE
    /\ UNCHANGED <<chan, rx, free, req>>

CancelModule ==
    /\ ~gate /\ rx = "open"
    /\ rx' = "closing"
    /\ UNCHANGED <<gate, chan, free, req>>

Busy == {r \in Requests : req[r].stage \in {"acquire", "await", "join"}}

(* What the end of the handler does to a request nobody took from the        *)
(* channel: its answer is dropped with it.                                   *)
Unserved == [r \in Requests |->
    IF r \in Range(chan) THEN [req[r] EXCEPT !.client = Told(r, "no_response"), !.stage = "done"]
                         ELSE req[r]]

HandlerEnds ==
    /\ rx = "closing" /\ chan = <<>> /\ Busy = {}
    /\ rx' = "ended"
    /\ chan' = <<>>
    /\ req' = Unserved
    /\ UNCHANGED <<gate, free>>

-----------------------------------------------------------------------------
(* One request: instance permit, guest, answer                               *)

Acquire(r) ==
    /\ req[r].stage = "acquire"
    /\ free > 0
    /\ free' = free - 1
    /\ Becomes(r, [req[r] EXCEPT !.stage = "await", !.task = "guest"])
    /\ UNCHANGED <<gate, chan, rx>>

(* No permit within one second: 503 without running the guest.               *)
Exhausted(r) ==
    /\ req[r].stage = "acquire"
    /\ free = 0
    /\ Becomes(r, [req[r] EXCEPT !.stage = "done", !.client = Told(r, "unavailable")])
    /\ UNCHANGED <<gate, chan, rx, free>>

(* The guest waits for the answer to a call it made.                         *)
InCall(r) == \E q \in Wire : <<r, q>> \in Calls /\ req[q].client \in {"entered", "waiting"}

Runs(r) == req[r].task = "guest" /\ ~InCall(r)

(* The guest calls a module over the proxy: a request body over the limit    *)
(* fails in the guest and reaches no one; otherwise the request arrives at   *)
(* this engine like any other.                                               *)
CallOut(r, q) ==
    /\ <<r, q>> \in Calls
    /\ Runs(r) /\ req[q].client = "idle"
    /\ Becomes(q, [req[q] EXCEPT !.client = IF gate THEN "entered" ELSE "refused"])
    /\ UNCHANGED <<gate, chan, rx, free>>

(* The guest reads the body of the answer to its call, or drops it.          *)
DropAnswer(r, q) ==
    /\ <<r, q>> \in Calls
    /\ Runs(r) /\ req[q].client = "streaming"
    /\ Becomes(q, Left(req[q]))
    /\ UNCHANGED <<gate, chan, rx, free>>

(* The guest sets the response outparam, to headers or to an error code.     *)
SetResponse(r) ==
    /\ Runs(r) /\ req[r].resp = "unset"
    /\ \E answer \in {"headers", "error"} : Becomes(r, [req[r] EXCEPT !.resp = answer])
    /\ UNCHANGED <<gate, chan, rx, free>>

WriteFrame(r) ==
    /\ Runs(r) /\ req[r].resp \in {"headers", "taken"}
    /\ req[r].end = "open" /\ req[r].frames < Pipe
    /\ Becomes(r, [req[r] EXCEPT !.frames = @ + 1])
    /\ UNCHANGED <<gate, chan, rx, free>>

FinishBody(r) ==
    /\ Runs(r) /\ req[r].resp \in {"headers", "taken"}
    /\ req[r].end = "open"
    /\ Becomes(r, [req[r] EXCEPT !.end = "finished"])
    /\ UNCHANGED <<gate, chan, rx, free>>

(* The guest's part is over.  Its store is dropped first, and with it an     *)
(* unset outparam, an unfinished body and the calls in progress; then the    *)
(* completion is sent and the task parks, keeping the permit.                *)
StoreDrops(r, verdict) ==
    [q \in Requests |->
        IF q = r
        THEN [req[r] EXCEPT !.task = "parked", !.verdict = verdict, !.comp = verdict,
                            !.resp = IF @ = "unset" THEN "dropped" ELSE @,
                            !.end = IF @ = "open" THEN "dropped" ELSE @]
        ELSE IF <<r, q>> \in Calls THEN Left(req[q]) ELSE req[q]]

GuestReturns(r) ==
    /\ Runs(r)
    /\ \E verdict \in {"complete", "failed"} : req' = StoreDrops(r, verdict)
    /\ UNCHANGED <<gate, chan, rx, free>>

(* The request timeout: the guest is stopped wherever it is.                 *)
GuestTimeout(r) ==
    /\ req[r].task = "guest"
    /\ req' = StoreDrops(r, "timeout")
    /\ UNCHANGED <<gate, chan, rx, free>>

(* The parked task ends once it is released, an aborted one at its next      *)
(* await; both give the permit back.                                         *)
TaskEnds(r) ==
    /\ \/ req[r].task = "parked" /\ req[r].released
       \/ req[r].task = "aborting"
    /\ free' = free + 1
    /\ req' = IF req[r].verdict # "none" THEN [req EXCEPT ![r].task = "ended"]
              ELSE [StoreDrops(r, "aborted") EXCEPT ![r].task = "ended", ![r].comp = "lost"]
    /\ UNCHANGED <<gate, chan, rx>>

(* Headers are there, the completion may be too: the body takes over the     *)
(* task.  If nobody waits for the answer any more it is dropped at once.     *)
TakeResponse(r) ==
    /\ req[r].stage = "await" /\ req[r].resp = "headers"
    /\ LET taken == [req[r] EXCEPT !.resp = "taken", !.stage = "done", !.body = "live"] IN
       Becomes(r, IF req[r].client = "waiting" THEN [taken EXCEPT !.client = "streaming"]
                                               ELSE DroppedBody(taken))
    /\ UNCHANGED <<gate, chan, rx, free>>

(* No headers: an error code is taken when it comes, a dropped outparam when *)
(* the completion says why.  The owner is released and then joined.          *)
TakeFailure(r) ==
    /\ req[r].stage = "await"
    /\ \/ req[r].resp = "error"
       \/ req[r].resp = "dropped" /\ req[r].comp # "pending"
    /\ Becomes(r, [req[r] EXCEPT !.stage = "join", !.released = TRUE])
    /\ UNCHANGED <<gate, chan, rx, free>>

AnswerFailure(r) ==
    /\ req[r].stage = "join" /\ req[r].task = "ended"
    /\ LET late == req[r].resp = "dropped" /\ req[r].comp = "timeout" IN
       Becomes(r, [req[r] EXCEPT !.stage = "done",
                                 !.client = Told(r, IF late THEN "timeout" ELSE "error")])
    /\ UNCHANGED <<gate, chan, rx, free>>

-----------------------------------------------------------------------------
(* RuntimeResponseBody::poll_frame, called by the connection                 *)

Polls(r) == req[r].body = "live"

(* A poll looks at the completion before it looks at the pipe: any end but   *)
(* a regular one fails the body.                                             *)
PollCompletion(r) ==
    /\ Polls(r) /\ req[r].comp \notin {"pending", "taken"}
    /\ Becomes(r, IF req[r].comp = "complete" THEN [req[r] EXCEPT !.comp = "taken"]
                  ELSE [DroppedBody(req[r]) EXCEPT !.client = "broken", !.body = "failed"])
    /\ UNCHANGED <<gate, chan, rx, free>>

ReadFrame(r) ==
    /\ Polls(r) /\ req[r].comp \in {"pending", "taken"}
    /\ req[r].frames > 0
    /\ Becomes(r, [req[r] EXCEPT !.frames = @ - 1])
    /\ UNCHANGED <<gate, chan, rx, free>>

Drained(r) == req[r].frames = 0 /\ req[r].end # "open"

(* A pipe whose writer is gone may read as an error.                         *)
ReadError(r) ==
    /\ Polls(r) /\ req[r].comp \in {"pending", "taken"}
    /\ Drained(r) /\ req[r].end = "dropped"
    /\ Becomes(r, [DroppedBody(req[r]) EXCEPT !.client = "broken", !.body = "failed"])
    /\ UNCHANGED <<gate, chan, rx, free>>

(* It may also read as a plain end, as a finished one does.  The end is told *)
(* when the completion has been seen and the released task has been joined;  *)
(* a connection that asks is_end_stream first drops the body instead.        *)
ReadEndEarly(r) ==
    /\ Polls(r) /\ Drained(r) /\ req[r].comp \in {"pending", "taken"}
    /\ \/ ~req[r].released /\ Becomes(r, [req[r] EXCEPT !.released = TRUE])
       \/ req[r].released
          /\ Becomes(r, [req[r] EXCEPT !.client = "clean", !.body = "ended"])
    /\ UNCHANGED <<gate, chan, rx, free>>

ReadEndUnreleased(r) ==
    /\ Polls(r) /\ Drained(r) /\ req[r].comp = "taken"
    /\ req[r].task = "ended"
    /\ Becomes(r, [req[r] EXCEPT !.client = "clean", !.body = "ended"])
    /\ UNCHANGED <<gate, chan, rx, free>>

ReadEnd(r) ==
    /\ Polls(r) /\ Drained(r) /\ req[r].comp = "taken"
    /\ \/ ~req[r].released /\ Becomes(r, [req[r] EXCEPT !.released = TRUE])
       \/ req[r].released /\ req[r].task = "ended"
          /\ Becomes(r, [req[r] EXCEPT !.client = "clean", !.body = "ended"])
       \/ Becomes(r, [DroppedBody(req[r]) EXCEPT !.client = "clean"])
    /\ UNCHANGED <<gate, chan, rx, free>>

Poll(r) == PollCompletion(r) \/ ReadFrame(r) \/ ReadError(r) \/ ReadEnd(r)

GuestNext ==
    \/ Receive \/ CloseGate \/ CancelModule \/ HandlerEnds
    \/ \E r \in Requests :
          \/ Enter(r) \/ Enqueue(r) \/ Send(r) \/ Leave(r)
          \/ Acquire(r) \/ Exhausted(r) \/ SetResponse(r) \/ WriteFrame(r) \/ FinishBody(r)
          \/ GuestReturns(r) \/ GuestTimeout(r) \/ TaskEnds(r)
          \/ TakeResponse(r) \/ TakeFailure(r) \/ AnswerFailure(r) \/ Poll(r)
          \/ \E q \in Requests : CallOut(r, q) \/ DropAnswer(r, q)

RequestSpec ==
    /\ \E traffic \in SUBSET Requests, instances \in Nat : GuestInit(traffic, instances)
    /\ [][GuestNext]_guestVars

(* The engine's tasks run, clocks advance, and the caller goes on reading or *)
(* goes: HTTP/2 flow control lets a caller that does neither keep a permit.  *)
Handles(r) ==
    Enqueue(r) \/ Acquire(r) \/ Exhausted(r) \/ TakeResponse(r) \/ TakeFailure(r) \/ AnswerFailure(r)

GuestFairness ==
    /\ WF_guestVars(Receive)
    /\ \A r \in Requests :
          /\ WF_guestVars(Handles(r))
          /\ WF_guestVars(GuestTimeout(r) \/ TaskEnds(r))
          /\ WF_guestVars(Poll(r))

-----------------------------------------------------------------------------
(* Properties                                                                *)

(* A response whose streamed body ends without an error comes from a guest   *)
(* that returned within its deadline: a timeout, trap or abort after the     *)
(* headers never looks like a complete body, although the pipe of a dropped  *)
(* store may read as a plain end (runtime.rs poll_frame).                    *)
CleanEndIsComplete ==
    \A r \in Requests : req[r].client = "clean" => req[r].verdict = "complete"

(* Every request taken into the channel is answered in the end, by its     *)
(* guest, a timeout or a busy pool, and leaves its instance permit in the  *)
(* pool: whichever of guest, timeout and caller ends first, also when the  *)
(* module is cancelled while the request waits in the channel, and also    *)
(* when guests that hold the whole pool call back into the engine          *)
(* (engine.rs http_handler_task, dispatch_request; runtime.rs poll_frame). *)
RequestsSettle ==
    \A r \in Requests : req[r].stage = "queued" ~>
                           /\ req[r].stage = "done" /\ req[r].task \in {"none", "ended"}
                           /\ req[r].client # "no_response"

(* An idle gate means that no guest of an admitted wire request runs.        *)
IdleIsQuiet ==
    (~gate /\ \A r \in Wire : req[r].client \notin {"entered", "waiting", "streaming"})
       => \A r \in Wire : req[r].task # "guest"
=============================================================================
