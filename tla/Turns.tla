------------------------------- MODULE Turns -------------------------------
(***************************************************************************)
(* The turns of one conversation (services/turns.py): the claim in Redis   *)
(* that one turn at a time holds and keeps alive, the fall-back to the     *)
(* memory of a process when Redis cannot be reached, the watchers of a     *)
(* turn, and the sweep that leaves a notice on the question of a turn that *)
(* died (services/recovery.py).                                            *)
(*                                                                         *)
(* One tick of time is HEARTBEAT_S.  A turn that runs on time beats once   *)
(* in every tick and ends within one; with "stall" in Faults a tick may    *)
(* pass without.  The stream of a turn is abstracted to whether its end    *)
(* marker is there, the conversation to its newest message.                *)
(***************************************************************************)
EXTENDS Naturals, FiniteSets

CONSTANTS
  TurnIds, Processes, Watchers, None,
  LiveTTL,          \* LIVE_TTL_S in ticks
  UnansweredAfter,  \* UNANSWERED_AFTER_S in ticks
  Faults,           \* of "die", "redis", "stall": what may go wrong
  MaxFaults,        \* bound on how often
  MaxOutcomes       \* bound on the request outcomes posted meanwhile

ASSUME NoneAssumption == None \notin TurnIds \cup Processes \cup {"redis", "memory"}

ASSUME TimeAssumption ==
  /\ LiveTTL \in Nat \ {0, 1} /\ UnansweredAfter \in Nat
  /\ MaxFaults \in Nat /\ MaxOutcomes \in Nat
  /\ Faults \subseteq {"die", "redis", "stall"}

VARIABLES
  key, ttl,   \* turn:live of the conversation: the turn that holds it, ticks left
  held,       \* each process's claim in memory (MemoryLog._live)
  turn,       \* each turn: where it is, in which process, with which log
  due,        \* turns that have not beaten in this tick
  ended,      \* turns whose stream has its end marker
  saved,      \* what of each turn is stored: nothing, its question, its reply
  newest,     \* the newest message: whose question it is, or None; its age
  noticed,    \* turns whose question was given a notice
  sweep, watcher,  \* local state of the sweep and of the watchers
  outcomes,
  faults      \* how many things went wrong, and whether only processes died

chat == <<saved, newest, noticed, outcomes>>
vars == <<key, ttl, held, turn, due, ended, saved, newest, noticed, sweep,
          watcher, outcomes, faults>>

Running == {t \in TurnIds : turn[t].pc \in {"running", "asked"}}
Ending == {t \in TurnIds : turn[t].pc \in {"ending", "finished", "releasing"}}

\* Only a death leaves the turns timely.
Fault(kind) ==
  /\ kind \in Faults /\ faults.count < MaxFaults
  /\ faults' = [count |-> faults.count + 1, timely |-> faults.timely /\ kind = "die"]

At(t, pc) == turn' = [turn EXCEPT ![t].pc = pc]

-----------------------------------------------------------------------------
(* Starting: SET NX with an expiry, or this process's memory.              *)

Started(t, p, log) ==
  /\ turn[t].pc = "none"
  /\ turn' = [turn EXCEPT ![t] = [pc |-> "running", at |-> p, log |-> log, beat |-> FALSE]]
  /\ UNCHANGED <<ended, chat, sweep, watcher>>

Start(t, p) ==
  /\ Started(t, p, "redis")
  /\ key = None
  /\ key' = t /\ ttl' = LiveTTL
  /\ due' = due \cup {t}
  /\ UNCHANGED <<held, faults>>

\* The call to Redis fails, before or after it took effect.
StartInMemory(t, p) ==
  /\ Fault("redis")
  /\ Started(t, p, "memory")
  /\ held[p] = None
  /\ held' = [held EXCEPT ![p] = t]
  /\ \/ UNCHANGED <<key, ttl>>
     \/ key = None /\ key' = t /\ ttl' = LiveTTL
  /\ UNCHANGED due

-----------------------------------------------------------------------------
(* Running: the question is saved, then the reply; a stop or a shutdown    *)
(* saves the reply as far as it got.                                       *)

Ask(t) ==
  /\ turn[t].pc = "running"
  /\ At(t, "asked")
  /\ saved' = [saved EXCEPT ![t] = "question"]
  /\ newest' = [of |-> t, age |-> 0]
  /\ UNCHANGED <<key, ttl, held, due, ended, noticed, sweep, watcher, outcomes, faults>>

\* The heartbeat is cancelled as the turn ends.
EndsAs(t) ==
  /\ turn' = [turn EXCEPT ![t].pc = "ending", ![t].beat = FALSE]
  /\ due' = due \ {t}
  /\ UNCHANGED <<key, ttl, held, ended, noticed, sweep, watcher, outcomes>>

Reply(t) ==
  /\ turn[t].pc = "asked"
  /\ EndsAs(t)
  /\ saved' = [saved EXCEPT ![t] = "reply"]
  /\ newest' = [of |-> None, age |-> 0]
  /\ UNCHANGED faults

\* Refused before the question is kept (paused, over budget, no slot).
Refuse(t) ==
  /\ turn[t].pc = "running"
  /\ EndsAs(t)
  /\ UNCHANGED <<saved, newest, faults>>

\* An exception in the turn: nothing more is recorded.
Fail(t) ==
  /\ turn[t].pc = "asked" /\ Fault("die")
  /\ EndsAs(t)
  /\ UNCHANGED <<saved, newest>>

\* GET, and EXPIRE when the claim is still this turn's.
BeatGet(t) ==
  /\ t \in Running /\ turn[t].log = "redis" /\ t \in due
  /\ turn' = [turn EXCEPT ![t].beat = (key = t)]
  /\ due' = due \ {t}
  /\ UNCHANGED <<key, ttl, held, ended, chat, sweep, watcher, faults>>

\* Mutant of Extended: the key's time is left as it was.
NotExtended == ttl

Extended == LiveTTL

BeatExpire(t) ==
  /\ t \in Running /\ turn[t].beat
  /\ turn' = [turn EXCEPT ![t].beat = FALSE]
  /\ ttl' = IF key # None THEN Extended ELSE ttl
  /\ UNCHANGED <<key, held, due, ended, chat, sweep, watcher, faults>>

-----------------------------------------------------------------------------
(* Ending: the end marker, then the claim.                                 *)

\* Mutant of Marked: the end of the stream is never written.
Unmarked(t) == ended

Marked(t) == ended \cup {t}

Finish(t) ==
  /\ turn[t].pc = "ending"
  /\ At(t, "finished")
  /\ ended' = Marked(t)
  /\ UNCHANGED <<key, ttl, held, due, chat, sweep, watcher, faults>>

\* In memory the claim is compared and freed at once; in Redis GET comes first.
Release(t) ==
  /\ turn[t].pc = "finished"
  /\ IF turn[t].log = "memory"
       THEN /\ held' = [p \in Processes |-> IF held[p] = t THEN None ELSE held[p]]
            /\ At(t, "over")
       ELSE At(t, IF key = t THEN "releasing" ELSE "over") /\ UNCHANGED held
  /\ UNCHANGED <<key, ttl, due, ended, chat, sweep, watcher, faults>>

ReleaseDelete(t) ==
  /\ turn[t].pc = "releasing"
  /\ At(t, "over")
  /\ key' = None /\ ttl' = 0
  /\ UNCHANGED <<held, due, ended, chat, sweep, watcher, faults>>

\* A call to Redis fails and is suppressed: the end unmarked, or the claim left to
\* expire.
EndCallFails(t) ==
  /\ turn[t].log = "redis" /\ Fault("redis")
  /\ \/ turn[t].pc = "ending" /\ At(t, "finished")
     \/ turn[t].pc \in {"finished", "releasing"} /\ At(t, "over")
  /\ UNCHANGED <<key, ttl, held, due, ended, chat, sweep, watcher>>

ProcessDies(p) ==
  /\ Fault("die")
  /\ LET gone == {t \in Running \cup Ending : turn[t].at = p}
     IN /\ gone # {}
        /\ turn' = [t \in TurnIds |-> IF t \in gone
                      THEN [turn[t] EXCEPT !.pc = "dead", !.beat = FALSE] ELSE turn[t]]
        /\ due' = due \ gone
  /\ held' = [held EXCEPT ![p] = None]
  /\ UNCHANGED <<key, ttl, ended, chat, sweep, watcher>>

-----------------------------------------------------------------------------
(* Time.                                                                   *)

OnTime == due = {} /\ Ending = {} /\ \A t \in TurnIds : ~turn[t].beat

\* Mutant of Lapsed: the claim is set without an expiry.
NeverLapses == FALSE

Lapsed == ttl <= 1

Tick ==
  /\ (OnTime /\ UNCHANGED faults) \/ (~OnTime /\ Fault("stall"))
  /\ key # None \/ newest.age <= UnansweredAfter
  /\ key' = IF Lapsed THEN None ELSE key
  /\ ttl' = IF ttl = 0 THEN 0 ELSE ttl - 1
  /\ newest' = [newest EXCEPT !.age = IF @ <= UnansweredAfter THEN @ + 1 ELSE @]
  /\ due' = {t \in Running : turn[t].log = "redis"}
  /\ UNCHANGED <<held, turn, ended, saved, noticed, sweep, watcher, outcomes>>

-----------------------------------------------------------------------------
(* Watching: read the stream; when it is quiet, look at the claim, and     *)
(* then, when it is not the turn's, at the end of the stream again.        *)

Watch(w, t) ==
  /\ watcher[w].pc = "idle" /\ turn[t].log = "redis"
  /\ watcher' = [watcher EXCEPT ![w] = [pc |-> "reading", of |-> t]]
  /\ UNCHANGED <<key, ttl, held, turn, due, ended, chat, sweep, faults>>

\* Mutant of ClaimGone: a watcher never takes a turn for lost.
NeverGone(t) == FALSE

ClaimGone(t) == key # t

WatcherStep(w) ==
  LET t == watcher[w].of
  IN /\ \/ watcher[w].pc = "reading" /\ t \in ended
           /\ watcher' = [watcher EXCEPT ![w].pc = "ended"]
        \/ watcher[w].pc = "reading" /\ t \notin ended /\ ClaimGone(t)
           /\ watcher' = [watcher EXCEPT ![w].pc = "suspecting"]
        \/ watcher[w].pc = "suspecting"
           /\ watcher' = [watcher EXCEPT ![w].pc = IF t \in ended THEN "reading" ELSE "lost"]
     /\ UNCHANGED <<key, ttl, held, turn, due, ended, chat, sweep, faults>>

-----------------------------------------------------------------------------
(* Recovery: the questions unanswered too long, then the claims, then the  *)
(* notices.                                                                *)

Swept(pc, found) == sweep' = [pc |-> pc, found |-> found]

SweepRead ==
  /\ sweep.pc = "idle"
  /\ newest.of # None /\ newest.age > UnansweredAfter
  /\ Swept("read", newest.of)
  /\ UNCHANGED <<key, ttl, held, turn, due, ended, chat, watcher, faults>>

\* Mutant of AliveAnywhere: a conversation with a claim is taken for dead too.
AliveNowhere == FALSE

AliveAnywhere == key # None

SweepLook ==
  /\ sweep.pc = "read"
  /\ IF AliveAnywhere THEN Swept("idle", None) ELSE Swept("dead", sweep.found)
  /\ UNCHANGED <<key, ttl, held, turn, due, ended, chat, watcher, faults>>

\* The claims cannot be read: nothing is done.
SweepBlind ==
  /\ sweep.pc = "read" /\ Fault("redis")
  /\ Swept("idle", None)
  /\ UNCHANGED <<key, ttl, held, turn, due, ended, chat, watcher>>

SweepNotice ==
  /\ sweep.pc = "dead"
  /\ noticed' = noticed \cup {sweep.found}
  /\ newest' = [of |-> None, age |-> 0]
  /\ Swept("idle", None)
  /\ UNCHANGED <<key, ttl, held, turn, due, ended, saved, watcher, outcomes, faults>>

\* How a request of the conversation ended is posted into it.
PostOutcome ==
  /\ outcomes < MaxOutcomes
  /\ outcomes' = outcomes + 1
  /\ newest' = [of |-> None, age |-> 0]
  /\ UNCHANGED <<key, ttl, held, turn, due, ended, saved, noticed, sweep, watcher, faults>>

-----------------------------------------------------------------------------
Init ==
  /\ key = None /\ ttl = 0
  /\ held = [p \in Processes |-> None]
  /\ turn = [t \in TurnIds |-> [pc |-> "none", at |-> None, log |-> None, beat |-> FALSE]]
  /\ due = {} /\ ended = {}
  /\ saved = [t \in TurnIds |-> "nothing"]
  /\ newest = [of |-> None, age |-> 0]
  /\ noticed = {}
  /\ sweep = [pc |-> "idle", found |-> None]
  /\ watcher = [w \in Watchers |-> [pc |-> "idle", of |-> None]]
  /\ outcomes = 0 /\ faults = [count |-> 0, timely |-> TRUE]

\* What a turn does by itself, once started.
TurnStep(t) ==
  \/ Ask(t) \/ Reply(t) \/ Refuse(t)
  \/ Finish(t) \/ Release(t) \/ ReleaseDelete(t)
Beat(t) == BeatGet(t) \/ BeatExpire(t)

TurnNext(t) ==
  \/ \E p \in Processes : Start(t, p) \/ StartInMemory(t, p)
  \/ TurnStep(t) \/ Beat(t)
  \/ Fail(t) \/ EndCallFails(t)

SweepStep == SweepRead \/ SweepLook \/ SweepNotice

Next ==
  \/ \E t \in TurnIds : TurnNext(t)
  \/ \E p \in Processes : ProcessDies(p)
  \/ \E w \in Watchers : WatcherStep(w) \/ \E t \in TurnIds : Watch(w, t)
  \/ SweepStep \/ SweepBlind
  \/ PostOutcome
  \/ Tick

Spec == Init /\ [][Next]_vars

\* A turn goes on until it ends (its model calls and tools are timed out), beats
\* while it runs, time passes, and the sweep runs every minute.
Fairness ==
  /\ WF_vars(Tick)
  /\ WF_vars(SweepStep)
  /\ \A t \in TurnIds : WF_vars(TurnStep(t)) /\ WF_vars(Beat(t))
  /\ \A w \in Watchers : WF_vars(WatcherStep(w))

FairSpec == Spec /\ Fairness

-----------------------------------------------------------------------------
(* Properties.                                                             *)

TurnType == [pc : {"none", "running", "asked", "ending", "finished", "releasing",
                   "over", "dead"},
             at : Processes \cup {None}, log : {"redis", "memory", None},
             beat : BOOLEAN]

FaultsSoFar == [count : 0..MaxFaults, timely : BOOLEAN]

\* Every variable has its type.
TypeOK ==
  /\ key \in TurnIds \cup {None} /\ ttl \in 0..LiveTTL
  /\ held \in [Processes -> TurnIds \cup {None}]
  /\ turn \in [TurnIds -> TurnType]
  /\ due \subseteq TurnIds /\ ended \subseteq TurnIds
  /\ saved \in [TurnIds -> {"nothing", "question", "reply"}]
  /\ newest \in [of : TurnIds \cup {None}, age : 0..UnansweredAfter + 1]
  /\ noticed \subseteq TurnIds
  /\ sweep \in [pc : {"idle"}, found : {None}] \cup [pc : {"read", "dead"}, found : TurnIds]
  /\ watcher \in [Watchers -> [pc : {"idle", "reading", "suspecting", "ended", "lost"},
                               of : TurnIds \cup {None}]]
  /\ outcomes \in 0..MaxOutcomes /\ faults \in FaultsSoFar

\* Nothing but a process has failed so far.
Timely == faults.timely

\* "A conversation has at most one turn running", whatever dies.
OneTurnRuns == Timely => Cardinality(Running) <= 1

\* A watcher is told the server stopped only when it did: an ended turn has its
\* marker before its claim is gone.
LostMeansDead == Timely => \A w \in Watchers :
  watcher[w].pc = "lost" => turn[watcher[w].of].pc = "dead"

\* "A notice on a conversation that is being answered would be wrong": the notice is
\* not for a question whose turn still runs.
NoticedMeansStopped == Timely => \A t \in noticed : t \notin Running

\* A watcher never waits for ever: its turn ends, or is told lost.
WatchersReturn == \A w \in Watchers :
  watcher[w].pc = "reading" ~> watcher[w].pc \in {"ended", "lost"}

\* The question that is the newest message does not stay so: it is answered, or
\* noticed, or something was said after it.
NewestIsSettled == \A t \in TurnIds : newest.of = t ~> newest.of # t

-----------------------------------------------------------------------------
(* Why turns that run on time are safe: the invariant behind the safety    *)
(* properties while nothing but a process fails.                           *)

Over == {t \in TurnIds : turn[t].pc \in {"over", "dead"}}

\* A turn holds the claim from its start to its release, and has at least a tick of
\* it left when it is due to beat.
ClaimHeld ==
  /\ \A t \in Running \cup Ending : key = t /\ turn[t].log = "redis"
  /\ \A t \in Running : ttl = LiveTTL \/ (ttl = LiveTTL - 1 /\ (t \in due \/ turn[t].beat))
  /\ \A t \in TurnIds : turn[t].beat => t \in Running
  /\ due \subseteq Running

\* A turn past its end marker has one, unless its process died.
EndMarked ==
  \A t \in TurnIds : turn[t].pc \in {"finished", "releasing", "over"} => t \in ended

\* What a watcher and the sweep concluded of a turn remains true.
ConclusionsHold ==
  /\ \A w \in Watchers :
       /\ watcher[w].pc # "idle" =>
            watcher[w].of \in TurnIds /\ turn[watcher[w].of].pc # "none"
       /\ watcher[w].pc = "suspecting" => key # watcher[w].of
       /\ watcher[w].pc = "lost" => turn[watcher[w].of].pc = "dead"
  /\ \A t \in TurnIds : turn[t].pc = "none" => turn[t].log = None
  /\ newest.of # None => turn[newest.of].pc # "none"
  /\ sweep.pc # "idle" => turn[sweep.found].pc # "none"
  /\ sweep.pc = "dead" => sweep.found \in Over
  /\ noticed \subseteq Over

TimelyInv == TypeOK /\ (Timely => ClaimHeld /\ EndMarked /\ ConclusionsHold)
=============================================================================
