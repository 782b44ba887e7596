---------------------------- MODULE WorkflowEvents ----------------------------
(***************************************************************************)
(* The events of one execution: its driver publishes on the bus of the     *)
(* run, subscribers (WebSockets, or the chat stream and its trace) read    *)
(* from bounded queues.  A resume opens a new bus; timers take buses off   *)
(* the table _live_buses by the execution's id.                            *)
(***************************************************************************)
EXTENDS Integers, Sequences, FiniteSets

CONSTANTS
  EvSubs,       \* subscribers
  EvQueue,      \* queue_size and history_size, 256 both
  EvOutputs,    \* bound: node outputs and chunks of a run
  EvMaxRuns     \* bound: the first run and its resumes

ASSUME EventsAssumption ==
  /\ EvQueue \in Nat \ {0} /\ EvOutputs \in Nat /\ EvMaxRuns \in Nat \ {0} /\ IsFiniteSet(EvSubs)

VARIABLES
  evChat,      \* the driver is the chat pipeline's: the bus is private, and closed at the end
  evRun,       \* the number of the run and of its bus
  evPc,        \* the driver: off, run, put, ended, waiting
  evTargets,   \* subscribers the critical event has yet to be put to
  evHistory,   \* of each bus: its last events
  evClosed,    \* buses that were closed
  evLive,      \* _live_buses: the bus of the execution, 0: none
  evPops,      \* timers of _delayed_bus_pop
  evSub,       \* subscribers: their bus and their queue; 0: none, -1: left or refused
  evSeen,      \* history: what each subscriber took from its queue
  evLate       \* history: subscribers a critical event was dropped for

eventVars == <<evChat, evRun, evPc, evTargets, evHistory, evClosed, evLive, evPops, evSub, evSeen, evLate>>

Kinds    == {"workflow_start", "node_output", "waiting_input", "workflow_end"}
Critical == {"workflow_start", "workflow_end"}
Sentinel == [n |-> 0, kind |-> "sentinel"]
Buses    == 1..EvMaxRuns
LastEvent(h) == IF h = <<>> THEN Sentinel ELSE h[Len(h)]
EventsOf(n)  == [n : 0..n, kind : Kinds \cup {"sentinel"}]

EventTypeOK ==
  /\ evChat \in BOOLEAN /\ evRun \in 0..EvMaxRuns /\ evPc \in {"off", "run", "put", "ended", "waiting"}
  /\ evTargets \subseteq EvSubs /\ evClosed \subseteq Buses /\ evLive \in 0..EvMaxRuns /\ evPops \in 0..EvMaxRuns
  /\ \A b \in Buses : Len(evHistory[b]) <= EvQueue
  /\ \A s \in EvSubs : /\ evSub[s].bus \in -1..EvMaxRuns /\ Len(evSub[s].queue) <= EvQueue
                       /\ \A i \in 1..Len(evSub[s].queue) : evSub[s].queue[i] \in EventsOf(EvOutputs + 3)
  /\ evLate \subseteq EvSubs

EventInit ==
  /\ evChat \in BOOLEAN /\ evRun = 0 /\ evPc = "off" /\ evTargets = {}
  /\ evHistory = [b \in Buses |-> <<>>] /\ evClosed = {} /\ evLive = 0 /\ evPops = 0
  /\ evSub = [s \in EvSubs |-> [bus |-> 0, queue |-> <<>>]]
  /\ evSeen = [s \in EvSubs |-> <<>>] /\ evLate = {}

Subscribed == {s \in EvSubs : evSub[s].bus = evRun}
Fits(s)    == Len(evSub[s].queue) < EvQueue
\* put_nowait: a full queue drops.
Offer(q, e) == IF Len(q) < EvQueue THEN Append(q, e) ELSE q

-----------------------------------------------------------------------------
(***************************************************************************)
(* The driver.                                                             *)
(***************************************************************************)

\* run_workflow and the webhook: the bus is in the table before the driver runs.
StartRun ==
  /\ ~evChat /\ (evPc = "off" \/ evPc = "waiting") /\ evRun < EvMaxRuns
  /\ evRun' = evRun + 1 /\ evPc' = "run" /\ evLive' = evRun + 1
  /\ UNCHANGED <<evChat, evTargets, evHistory, evClosed, evPops, evSub, evSeen, evLate>>

\* run_workflow_pipeline subscribes, and its trace does, before the driver task takes a step.
StartChat ==
  /\ evChat /\ evPc = "off"
  /\ evRun' = 1 /\ evPc' = "run"
  /\ evSub' = [s \in EvSubs |-> [bus |-> 1, queue |-> <<>>]]
  /\ UNCHANGED <<evChat, evTargets, evHistory, evClosed, evLive, evPops, evSeen, evLate>>

\* stream_execution: workflow_start, the nodes' events, waiting_input when the graph was
\* interrupted, workflow_end.
NextKind(h, kind) ==
  LET last == LastEvent(h).kind IN
  CASE kind = "workflow_start" -> h = <<>>
    [] kind = "workflow_end"   -> h # <<>> /\ last # "workflow_end"
    [] OTHER                   -> h # <<>> /\ last \notin {"workflow_end", "waiting_input"} /\ LastEvent(h).n <= EvOutputs

RecordedAll(h, e) == Append(h, e)    \* mutant: the history is not trimmed
Recorded(h, e) ==
  LET all == Append(h, e) IN IF Len(all) > EvQueue THEN SubSeq(all, Len(all) - EvQueue + 1, Len(all)) ELSE all

\* publish: the event is in the history first.  A critical one is then put to the
\* subscribers of that moment, one after the other; any other to the queues that are not full.
Publish(kind) ==
  LET e == [n |-> LastEvent(evHistory[evRun]).n + 1, kind |-> kind] IN
  /\ evPc = "run" /\ NextKind(evHistory[evRun], kind)
  /\ evHistory' = [evHistory EXCEPT ![evRun] = Recorded(@, e)]
  /\ IF kind \in Critical
       THEN evPc' = "put" /\ evTargets' = Subscribed /\ UNCHANGED evSub
       ELSE /\ evSub' = [s \in EvSubs |-> IF s \in Subscribed THEN [evSub[s] EXCEPT !.queue = Offer(@, e)] ELSE evSub[s]]
            /\ UNCHANGED <<evPc, evTargets>>
  /\ UNCHANGED <<evChat, evRun, evClosed, evLive, evPops, evSeen, evLate>>

\* wait_for(q.put(ev), critical_wait).  A WebSocket that went away left its queue behind.
PutCritical(s) ==
  /\ evPc = "put" /\ s \in evTargets /\ evTargets' = evTargets \ {s}
  /\ IF evSub[s].bus = evRun /\ Fits(s)
       THEN /\ evSub' = [evSub EXCEPT ![s].queue = Append(@, LastEvent(evHistory[evRun]))]
            /\ UNCHANGED evLate
       ELSE evLate' = evLate \cup {s} /\ UNCHANGED evSub
  /\ UNCHANGED <<evChat, evRun, evPc, evHistory, evClosed, evLive, evPops, evSeen>>

\* After workflow_end the driver of a route starts its timer, the driver of a chat closes the bus.
EndRun(next) ==
  /\ evPc' = next
  /\ IF evChat
       THEN /\ evClosed' = evClosed \cup {evRun} /\ UNCHANGED evPops
            /\ evSub' = [s \in EvSubs |-> IF s \in Subscribed THEN [evSub[s] EXCEPT !.queue = Offer(@, Sentinel)] ELSE evSub[s]]
       ELSE evPops' = evPops + 1 /\ UNCHANGED <<evClosed, evSub>>

DonePut ==
  /\ evPc = "put" /\ evTargets = {}
  /\ LET h == evHistory[evRun] IN
     IF LastEvent(h).kind = "workflow_end"
       THEN EndRun(IF Len(h) > 1 /\ h[Len(h) - 1].kind = "waiting_input" THEN "waiting" ELSE "ended")
       ELSE evPc' = "run" /\ UNCHANGED <<evClosed, evPops, evSub>>
  /\ UNCHANGED <<evChat, evRun, evTargets, evHistory, evLive, evSeen, evLate>>

\* A cancelled task (CancelledError is no Exception), or a failure before the graph starts:
\* there is no workflow_end.
AbortRun ==
  /\ evPc \in {"run", "put"} /\ EndRun("ended") /\ evTargets' = {}
  /\ evLate' = evLate \cup evTargets
  /\ UNCHANGED <<evChat, evRun, evHistory, evLive, evSeen>>

\* The timer knows the execution, not the bus: it also takes the bus of a resume.
PopBus ==
  /\ evPops > 0 /\ evPops' = evPops - 1 /\ evLive' = 0
  /\ UNCHANGED <<evChat, evRun, evPc, evTargets, evHistory, evClosed, evSub, evSeen, evLate>>

-----------------------------------------------------------------------------
(***************************************************************************)
(* Subscribers.                                                            *)
(***************************************************************************)

\* What a new subscriber is given: the history, and the sentinel of a closed bus.
ReplayClosed(b) == IF b \in evClosed THEN Offer(evHistory[b], Sentinel) ELSE <<>>   \* mutant: a bus that is still live replays nothing
Replay(b) == IF b \in evClosed THEN Offer(evHistory[b], Sentinel) ELSE evHistory[b]

\* A WebSocket takes the bus of the table, or is told that the execution is not live.
Connect(s) ==
  /\ ~evChat /\ evRun > 0 /\ evSub[s].bus = 0
  /\ evSub' = [evSub EXCEPT ![s] = IF evLive = 0 THEN [bus |-> -1, queue |-> <<>>]
                                                 ELSE [bus |-> evLive, queue |-> Replay(evLive)]]
  /\ UNCHANGED <<evChat, evRun, evPc, evTargets, evHistory, evClosed, evLive, evPops, evSeen, evLate>>

ReadEvent(s) ==
  /\ evSub[s].bus > 0 /\ evSub[s].queue # <<>>
  /\ LET e == Head(evSub[s].queue) IN
     /\ evSub' = [evSub EXCEPT ![s] = [bus |-> IF e = Sentinel THEN -1 ELSE @.bus, queue |-> Tail(@.queue)]]
     /\ evSeen' = [evSeen EXCEPT ![s] = IF e = Sentinel THEN @ ELSE Append(@, e)]
  /\ UNCHANGED <<evChat, evRun, evPc, evTargets, evHistory, evClosed, evLive, evPops, evLate>>

EventNext ==
  \/ StartRun \/ StartChat \/ DonePut \/ AbortRun \/ PopBus
  \/ \E kind \in Kinds : Publish(kind)
  \/ \E s \in EvSubs : PutCritical(s) \/ Connect(s) \/ ReadEvent(s)
EventSpec == EventInit /\ [][EventNext]_eventVars

-----------------------------------------------------------------------------
\* A subscriber gets every event at most once and in the order of publication, whether it
\* joined before the run, between two puts of one event or after the end; and no state
\* change is kept from it, unless its queue was full for as long as publish waits.
CriticalOnce ==
  \A s \in EvSubs :
    LET got == evSeen[s] \o evSub[s].queue
        b   == evSub[s].bus
    IN  /\ \A i, j \in 1..Len(got) : i < j /\ got[j] # Sentinel => got[i].n < got[j].n
        /\ b > 0 /\ s \notin evLate /\ ~(b = evRun /\ s \in evTargets) =>
             \A i \in 1..Len(evHistory[b]) :
               evHistory[b][i].kind \in Critical => \E j \in 1..Len(got) : got[j] = evHistory[b][i]
=============================================================================
