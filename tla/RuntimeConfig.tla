----------------------------- MODULE RuntimeConfig -----------------------------
(***************************************************************************)
(* system_settings and the cache each process keeps of it: updates by      *)
(* administrators, the messages that tell the processes to drop their      *)
(* cache, subscribers that lose their connection, and reads that overlap   *)
(* an update.                                                              *)
(*                                                                         *)
(* Each committed content of the row has a number.  An update flushes,     *)
(* drops its own cache, publishes, and is committed only when its response *)
(* has been built (get_db): a read after the message may still fetch what  *)
(* was there before, and keeps it until its TTL ends.                      *)
(***************************************************************************)
EXTENDS Integers, Sequences

CONSTANTS
  RcProcs,       \* web and Celery processes
  RcUpdates,     \* requests that update the settings
  RcSections,    \* sections of the settings
  RcTTL,         \* _CACHE_TTL
  RcLastTime     \* bound: the clock

ASSUME RuntimeAssumption == RcTTL \in Nat \ {0} /\ RcLastTime \in Nat /\ RcSections # {}

VARIABLES
  rcNow,       \* the clock
  rcRow,       \* the committed row: its number, and which update set each section
  rcEnd,       \* when each former content was replaced
  rcCache,     \* the cache of each process, with the time it is dated to
  rcReader,    \* a read of each process
  rcSub,       \* processes whose subscriber is connected
  rcMsg,       \* processes that have a message to take
  rcUpd        \* updates

configVars == <<rcNow, rcRow, rcEnd, rcCache, rcReader, rcSub, rcMsg, rcUpd>>

NoUpdate  == "none"
NoCache   == [on |-> FALSE, row |-> 0, ts |-> 0]
NoReader  == [pc |-> "idle", row |-> 0, ts |-> 0]
Failed    == -1        \* the empty dictionary of a read that failed
Writers   == RcUpdates \cup {NoUpdate}
Settings  == [RcSections -> Writers]

ConfigTypeOK ==
  /\ rcNow \in 0..RcLastTime
  /\ rcRow \in [number : Nat, of : Settings]
  /\ rcEnd \in Seq(0..rcNow) /\ Len(rcEnd) = rcRow.number - 1
  /\ rcCache \in [RcProcs -> [on : BOOLEAN, row : Failed..rcRow.number, ts : 0..rcNow]]
  /\ rcReader \in [RcProcs -> [pc : {"idle", "read", "store"}, row : Failed..rcRow.number, ts : 0..rcNow]]
  /\ rcSub \subseteq RcProcs /\ rcMsg \subseteq rcSub
  /\ rcUpd \in [RcUpdates -> [pc : {"idle", "read", "flushed", "done"}, section : RcSections, base : Settings]]

ConfigInit ==
  /\ rcNow = 0 /\ rcRow = [number |-> 1, of |-> [s \in RcSections |-> NoUpdate]] /\ rcEnd = <<>>
  /\ rcCache = [p \in RcProcs |-> NoCache] /\ rcReader = [p \in RcProcs |-> NoReader]
  /\ rcSub = RcProcs /\ rcMsg = {}
  /\ rcUpd = [u \in RcUpdates |-> [pc |-> "idle", section |-> CHOOSE s \in RcSections : TRUE, base |-> rcRow.of]]

Fresh(p) == rcCache[p].on /\ rcNow - rcCache[p].ts < RcTTL

-----------------------------------------------------------------------------
\* get_runtime_config: the time is taken before the row is read.
OpenConfigRead(p) ==
  /\ rcReader[p].pc = "idle" /\ ~Fresh(p)
  /\ rcReader' = [rcReader EXCEPT ![p] = [pc |-> "read", row |-> 0, ts |-> rcNow]]
  /\ UNCHANGED <<rcNow, rcRow, rcEnd, rcCache, rcSub, rcMsg, rcUpd>>

ReadSettings(p) ==
  /\ rcReader[p].pc = "read"
  /\ \E row \in {rcRow.number, Failed} : rcReader' = [rcReader EXCEPT ![p].pc = "store", ![p].row = row]
  /\ UNCHANGED <<rcNow, rcRow, rcEnd, rcCache, rcSub, rcMsg, rcUpd>>

DateOnStore(p) == rcNow             \* mutant: the cache is dated to the end of the read
CacheDate(p)   == rcReader[p].ts

StoreConfigRead(p) ==
  /\ rcReader[p].pc = "store"
  /\ rcCache' = [rcCache EXCEPT ![p] = [on |-> TRUE, row |-> rcReader[p].row, ts |-> CacheDate(p)]]
  /\ rcReader' = [rcReader EXCEPT ![p] = NoReader]
  /\ UNCHANGED <<rcNow, rcRow, rcEnd, rcSub, rcMsg, rcUpd>>

-----------------------------------------------------------------------------
\* update_settings
ReadForUpdate(u) ==
  /\ rcUpd[u].pc = "idle"
  /\ \E s \in RcSections : rcUpd' = [rcUpd EXCEPT ![u] = [pc |-> "read", section |-> s, base |-> rcRow.of]]
  /\ UNCHANGED <<rcNow, rcRow, rcEnd, rcCache, rcReader, rcSub, rcMsg>>

\* The flush takes the lock of the row; the cache of the process p that serves the request
\* is dropped and the message published, which only connected subscribers receive.
FlushUpdate(u, p) ==
  /\ rcUpd[u].pc = "read" /\ \A v \in RcUpdates : rcUpd[v].pc # "flushed"
  /\ rcUpd' = [rcUpd EXCEPT ![u].pc = "flushed"]
  /\ rcCache' = [rcCache EXCEPT ![p] = NoCache]
  /\ rcMsg' = rcSub \/ rcMsg' = rcMsg
  /\ UNCHANGED <<rcNow, rcRow, rcEnd, rcReader, rcSub>>

\* The section is set in the row as it was read: an update committed since is lost.
MergedWith(u) == [rcUpd[u].base EXCEPT ![rcUpd[u].section] = u]

CommitUpdate(u) ==
  /\ rcUpd[u].pc = "flushed" /\ rcUpd' = [rcUpd EXCEPT ![u].pc = "done"]
  /\ rcRow' = [number |-> rcRow.number + 1, of |-> MergedWith(u)] /\ rcEnd' = Append(rcEnd, rcNow)
  /\ UNCHANGED <<rcNow, rcCache, rcReader, rcSub, rcMsg>>

\* The response fails: the flush is rolled back, the message stays published.
RollbackUpdate(u) ==
  /\ rcUpd[u].pc = "flushed" /\ rcUpd' = [rcUpd EXCEPT ![u].pc = "done"]
  /\ UNCHANGED <<rcNow, rcRow, rcEnd, rcCache, rcReader, rcSub, rcMsg>>

-----------------------------------------------------------------------------
\* The subscribe loops.  A read that is under way stores its value after the message.
TakeMessage(p) ==
  /\ p \in rcMsg /\ rcMsg' = rcMsg \ {p} /\ rcCache' = [rcCache EXCEPT ![p] = NoCache]
  /\ UNCHANGED <<rcNow, rcRow, rcEnd, rcReader, rcSub, rcUpd>>
Disconnect(p) ==
  /\ p \in rcSub /\ rcSub' = rcSub \ {p} /\ rcMsg' = rcMsg \ {p}
  /\ UNCHANGED <<rcNow, rcRow, rcEnd, rcCache, rcReader, rcUpd>>
Reconnect(p) ==
  /\ p \notin rcSub /\ rcSub' = rcSub \cup {p}
  /\ UNCHANGED <<rcNow, rcRow, rcEnd, rcCache, rcReader, rcMsg, rcUpd>>

ConfigTick ==
  /\ rcNow < RcLastTime /\ rcNow' = rcNow + 1
  /\ UNCHANGED <<rcRow, rcEnd, rcCache, rcReader, rcSub, rcMsg, rcUpd>>

ConfigNext ==
  \/ \E p \in RcProcs : \/ OpenConfigRead(p) \/ ReadSettings(p) \/ StoreConfigRead(p)
                        \/ TakeMessage(p) \/ Disconnect(p) \/ Reconnect(p)
  \/ \E u \in RcUpdates : \/ ReadForUpdate(u) \/ CommitUpdate(u) \/ RollbackUpdate(u)
                          \/ \E p \in RcProcs : FlushUpdate(u, p)
  \/ ConfigTick
ConfigSpec == ConfigInit /\ [][ConfigNext]_configVars

-----------------------------------------------------------------------------
\* What a process serves from its cache was the committed content of the row at some time
\* less than RcTTL ago, whatever messages are lost and reads overlap updates.
ServedWithinTTL ==
  \A p \in RcProcs : Fresh(p) /\ rcCache[p].row \notin {Failed, rcRow.number}
                       => rcNow - rcEnd[rcCache[p].row] < RcTTL
=============================================================================
