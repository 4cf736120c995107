---------------------------- MODULE EventIntake ----------------------------
(***************************************************************************)
(* From the kernel's ring buffer to the agent: sentinel.c reserves and     *)
(* submits records, SentinelAgent._live_loop polls them in a worker thread *)
(* whose callback calls put_nowait of an asyncio.Queue, and _drain_queue   *)
(* on the event loop takes them out and awaits the handler.                *)
(*                                                                         *)
(* asyncio.Queue is not thread-safe.  get() looks whether the queue is     *)
(* empty and then registers a waiter; the poll thread may put between the  *)
(* two, and then wakes nobody.  And a waiter it does wake only resumes     *)
(* when something else wakes the loop: the end of the poll itself.         *)
(***************************************************************************)
EXTENDS Naturals, Sequences

CONSTANTS
  RingSize,    \* records that fit into the ring buffer
  QueueSize,   \* maxsize of the intake queue
  Burst,       \* callbacks that fit between two byte codes of get()
  NoEvent      \* "no event here"

ASSUME IntakeAssumption ==
  /\ {RingSize, QueueSize, Burst} \subseteq Nat
  /\ Burst < QueueSize

VARIABLES
  loaded,    \* did BPFLoader.load succeed?  If not, scenarios are simulated
  sent,      \* history: number of records submitted
  ring,      \* records submitted and not consumed
  polling,   \* is a poll running in the worker thread?
  queue,     \* the intake queue
  drain,     \* where _drain_queue is
  slice,     \* callbacks since get() saw an empty queue
  handling   \* the event taken last, being handled while drain = "busy"

intakeVars == <<loaded, sent, ring, polling, queue, drain, slice, handling>>

IntakeInit ==
  /\ loaded \in BOOLEAN
  /\ sent = 0 /\ ring = <<>>
  /\ polling = FALSE
  /\ queue = <<>> /\ drain = "ready" /\ slice = 0
  /\ handling = NoEvent

-----------------------------------------------------------------------------
(* The kernel side: bpf_ringbuf_reserve fails when the buffer is full.      *)

\* Mutant of Reserved: one record too many.
ReservedLate == Len(ring) <= RingSize

Reserved == Len(ring) < RingSize

Submit(e) ==
  /\ sent' = sent + 1
  /\ ring' = Append(ring, e)
  /\ UNCHANGED <<loaded, polling, queue, drain, slice, handling>>

-----------------------------------------------------------------------------
(* The poll thread.                                                         *)

\* the loop hands the next poll to a thread; a waiter woken before is resumed
\* first, the loop's ready queue being first in, first out
Poll ==
  /\ loaded /\ ~polling /\ drain # "woken"
  /\ polling' = TRUE
  /\ UNCHANGED <<loaded, sent, ring, queue, drain, slice, handling>>

\* Mutant of Callback: a full queue keeps the newest event.
CallbackEvicts ==
  /\ polling /\ ring # <<>>
  /\ drain = "checked" => slice < Burst
  /\ slice' = IF drain = "checked" THEN slice + 1 ELSE slice
  /\ ring' = Tail(ring)
  /\ queue' = IF Len(queue) < QueueSize THEN Append(queue, Head(ring))
              ELSE Append(Tail(queue), Head(ring))
  /\ drain' = IF drain = "waiting" THEN "woken" ELSE drain
  /\ UNCHANGED <<loaded, sent, polling, handling>>

\* Mutant of Callback: the waiter is woken only by the first event.
CallbackWakesFirst ==
  /\ polling /\ ring # <<>>
  /\ drain = "checked" => slice < Burst
  /\ slice' = IF drain = "checked" THEN slice + 1 ELSE slice
  /\ ring' = Tail(ring)
  /\ IF Len(queue) < QueueSize
     THEN /\ queue' = Append(queue, Head(ring))
          /\ drain' = IF drain = "waiting" /\ queue = <<>> THEN "woken" ELSE drain
     ELSE UNCHANGED <<queue, drain>>
  /\ UNCHANGED <<loaded, sent, polling, handling>>

\* _bpf_callback: put_nowait, or drop when the queue is full
Callback ==
  /\ polling /\ ring # <<>>
  /\ drain = "checked" => slice < Burst
  /\ slice' = IF drain = "checked" THEN slice + 1 ELSE slice
  /\ ring' = Tail(ring)
  /\ IF Len(queue) < QueueSize
     THEN /\ queue' = Append(queue, Head(ring))
          /\ drain' = IF drain = "waiting" THEN "woken" ELSE drain
     ELSE UNCHANGED <<queue, drain>>
  /\ UNCHANGED <<loaded, sent, polling, handling>>

\* the end of a poll, however it ends, wakes the loop
PollEnds ==
  /\ polling
  /\ polling' = FALSE
  /\ UNCHANGED <<loaded, sent, ring, queue, drain, slice, handling>>

\* the poll consumes what is there and returns
PollReturns == ring = <<>> /\ PollEnds

\* the ring buffer is opened anew by each poll: that, or polling it, raises,
\* and poll swallows it; or a record is submitted behind the poll's back
PollFails == ring # <<>> /\ PollEnds

-----------------------------------------------------------------------------
(* _drain_queue on the event loop.                                          *)

\* get() sees an empty queue ...
SeeEmpty ==
  /\ drain = "ready" /\ queue = <<>>
  /\ drain' = "checked" /\ slice' = 0
  /\ UNCHANGED <<loaded, sent, ring, polling, queue, handling>>

\* ... and registers its waiter
Register ==
  /\ drain = "checked"
  /\ drain' = "waiting" /\ slice' = 0
  /\ UNCHANGED <<loaded, sent, ring, polling, queue, handling>>

\* the woken waiter resumes and looks at the queue again
Resume ==
  /\ drain = "woken"
  /\ drain' = "ready"
  /\ UNCHANGED <<loaded, sent, ring, polling, queue, slice, handling>>

Take ==
  /\ drain = "ready" /\ queue # <<>>
  /\ drain' = "busy"
  /\ handling' = Head(queue)
  /\ queue' = Tail(queue)
  /\ UNCHANGED <<loaded, sent, ring, polling, slice>>

\* _handle_event returns (see AgentPipeline: the detector's put may wait)
Handled ==
  /\ drain = "busy"
  /\ drain' = "ready"
  /\ UNCHANGED <<loaded, sent, ring, polling, queue, slice, handling>>

IntakeNext ==
  \/ Poll \/ Callback \/ PollReturns \/ PollFails
  \/ SeeEmpty \/ Register \/ Resume \/ Take \/ Handled

\* Every thread and coroutine that can go on does; a waiter that was woken
\* from the poll thread only once the poll is over.  Every poll ends; nothing
\* says that it ends well.
IntakeFairness ==
  /\ WF_intakeVars(Poll) /\ WF_intakeVars(Callback) /\ WF_intakeVars(PollEnds)
  /\ WF_intakeVars(SeeEmpty) /\ WF_intakeVars(Register)
  /\ WF_intakeVars(~polling /\ Resume)
  /\ WF_intakeVars(Take) /\ WF_intakeVars(Handled)
=============================================================================
