--------------------------- MODULE StepParserPool ---------------------------
(***************************************************************************)
(* The slots and the queue of STEP parsing                                 *)
(* (src/cad/parsing/stepParserRunner.ts).                                  *)
(*                                                                         *)
(* A parse takes a slot and runs in a child process, or waits in a bounded *)
(* FIFO queue, or is refused.  Each parse has one deadline from its        *)
(* arrival on, for waiting and parsing together; its two timers (of the    *)
(* pool and of the caller, which aborts) fire for the same instant, either *)
(* first, to the same effect.  A slot that is given back wakes the first   *)
(* waiter, whose continuation takes it before any other event is handled.  *)
(***************************************************************************)
EXTENDS Naturals, Sequences, FiniteSets, SequencesExt

CONSTANTS
    Parses,           \* calls of parseStepFileWithTimeout
    MaxConcurrency,   \* cadStepParserConfig.maxConcurrency
    MaxQueue          \* cadStepParserConfig.maxQueue

ASSUME LimitsAssumption == MaxConcurrency \in Nat \ {0} /\ MaxQueue \in Nat

VARIABLES
    stage,     \* where each parse is, or how it ended
    active,    \* activeParserProcesses
    waiters    \* parserWaiters

vars == <<stage, active, waiters>>

Ended == {"parsed", "failed", "timedOut", "refused"}

Init ==
    /\ stage = [p \in Parses |-> "idle"]
    /\ active = 0
    /\ waiters = <<>>

(***************************************************************************)
(* acquireParserSlot                                                       *)
(***************************************************************************)
TakeSlot(p) ==
    /\ stage[p] = "idle"
    /\ active < MaxConcurrency
    /\ active' = active + 1
    /\ stage' = [stage EXCEPT ![p] = "parsing"]
    /\ UNCHANGED waiters

Refuse(p) ==
    /\ stage[p] = "idle"
    /\ active >= MaxConcurrency
    /\ Len(waiters) >= MaxQueue
    /\ stage' = [stage EXCEPT ![p] = "refused"]
    /\ UNCHANGED <<active, waiters>>

Wait(p) ==
    /\ stage[p] = "idle"
    /\ active >= MaxConcurrency
    /\ Len(waiters) < MaxQueue
    /\ stage' = [stage EXCEPT ![p] = "waiting"]
    /\ waiters' = Append(waiters, p)
    /\ UNCHANGED active

(***************************************************************************)
(* releaseParserSlot, at the end of every parse                            *)
(***************************************************************************)
GivenBack == IF active = 0 THEN 0 ELSE active - 1

Release(p, outcome) ==
    IF waiters = <<>>
    THEN /\ active' = GivenBack
         /\ stage' = [stage EXCEPT ![p] = outcome]
         /\ UNCHANGED waiters
    ELSE /\ active' = GivenBack + 1
         /\ stage' = [stage EXCEPT ![p] = outcome, ![Head(waiters)] = "parsing"]
         /\ waiters' = Tail(waiters)

\* The child's message, its error, or its exit before either.
Finish(p) ==
    /\ stage[p] = "parsing"
    /\ \E outcome \in {"parsed", "failed"} : Release(p, outcome)

\* Faulty: the child is killed, its parse is left to hang.
TimeOutSilently(p) ==
    /\ stage[p] = "parsing"
    /\ Release(p, "parsing")

\* The deadline while parsing: the child is killed.
TimeOutParsing(p) ==
    /\ stage[p] = "parsing"
    /\ Release(p, "timedOut")

\* removeWaiter
LeaveQueue(p) ==
    \E i \in DOMAIN waiters : waiters[i] = p /\ waiters' = RemoveAt(waiters, i)

\* Faulty: a parse that never held a slot gives one back; it stays in the queue.
TimeOutReleasing(p) ==
    /\ stage[p] = "waiting"
    /\ stage' = [stage EXCEPT ![p] = "timedOut"]
    /\ LeaveQueue(p)
    /\ active' = GivenBack
\* The deadline while waiting.
TimeOutWaiting(p) ==
    /\ stage[p] = "waiting"
    /\ stage' = [stage EXCEPT ![p] = "timedOut"]
    /\ LeaveQueue(p)
    /\ UNCHANGED active

Next == \E p \in Parses :
    TakeSlot(p) \/ Refuse(p) \/ Wait(p) \/ Finish(p) \/ TimeOutParsing(p) \/ TimeOutWaiting(p)

Spec == Init /\ [][Next]_vars

(***************************************************************************)
(* Properties.                                                             *)
(***************************************************************************)
Parsing == {p \in Parses : stage[p] = "parsing"}
Waiting == {p \in Parses : stage[p] = "waiting"}

\* The types of the variables; no more slots are taken than there are.
TypeOK ==
    /\ stage \in [Parses -> {"idle", "waiting", "parsing"} \cup Ended]
    /\ active \in 0..MaxConcurrency
    /\ waiters \in Seq(Parses)

\* The counter is the number of parses that hold a slot: whatever the order of answers,
\* deadlines and wake-ups, no slot is sold twice or lost.
SlotsAccounted == active = Cardinality(Parsing)

\* A parse waits only while every slot is taken, so that the next release wakes it and a
\* newcomer cannot overtake it.
NoIdleSlot == waiters # <<>> => active = MaxConcurrency

\* The queue holds each waiting parse once and nobody else, within its limit: a parse
\* that gave up is never woken.
QueueIsExact ==
    /\ ToSet(waiters) = Waiting
    /\ IsInjective(waiters)
    /\ Len(waiters) <= MaxQueue

\* Slots are neither lost, oversold nor idle, and the queue is what it says.
PoolIsSound == SlotsAccounted /\ NoIdleSlot /\ QueueIsExact
=============================================================================
