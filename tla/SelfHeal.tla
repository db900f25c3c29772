------------------------------- MODULE SelfHeal -------------------------------
(***************************************************************************)
(* The self-heal engine of the Service (internal/selfheal): a bounded      *)
(* queue of faults, merged by key; one worker that checks, repairs and     *)
(* verifies; and a persisted circuit breaker per key.  One key is          *)
(* modelled: keys share the queue and the worker and nothing else.         *)
(***************************************************************************)
EXTENDS Naturals, Sequences

CONSTANTS
    Reporters,      \* goroutines that call Submit
    QueueSize,      \* 128 in the code
    MaxAttempts,    \* MaxRepairRounds, 2 in the code
    Budgets,        \* pairs of a window and a cooldown, in ticks
    MaxTime, MaxLives, MaxHealFaults    \* bounds: the clock, starts, faults

ASSUME HealAssumption ==
    /\ QueueSize \in Nat /\ MaxAttempts \in Nat \ {0}
    /\ Budgets \subseteq [window : Nat, cooldown : Nat \ {0}]
    /\ MaxTime \in Nat /\ MaxLives \in Nat /\ MaxHealFaults \in Nat

VARIABLES
    engine,         \* started and stopping
    life,           \* starts of the engine so far
    backlog,        \* e.queue: the life in which each event was admitted
    merging,        \* the key is in e.pending
    submits,        \* Submit of each reporter: the life it saw, 0 outside the call
    heal,           \* where the worker is
    event,          \* the life in which the worker's event was admitted
    trial,          \* the attempt is the half-open one
    circuit,        \* the record of the key in budgetStore
    stored,         \* the record in selfheal-state.json
    budget,         \* the policy's window and cooldown
    clock,
    tally,          \* history: failed repairs of this window that were no trial
    windowBegan,    \* history: when this window began, by the clock
    wedged,         \* history: a half-open mark that a fault left behind
    healFaults

healVars == <<engine, life, backlog, merging, submits, heal, event, trial, circuit, stored,
              budget, clock, tally, windowBegan, wedged, healFaults>>

Never == MaxTime + 100      \* the zero time of a record
ClosedSince(time) == [attempts |-> 0, began |-> time, openUntil |-> Never, halfOpen |-> FALSE]
Closed == ClosedSince(Never)

HealInit ==
    /\ engine = "stopped" /\ life = 0 /\ backlog = <<>> /\ merging = FALSE
    /\ submits = [r \in Reporters |-> 0] /\ heal = "none" /\ event = 0 /\ trial = FALSE
    /\ circuit = Closed /\ stored = Closed /\ budget \in Budgets /\ clock = 0
    /\ tally = 0 /\ windowBegan = Never /\ wedged = FALSE /\ healFaults = 0

circuitVars == <<circuit, stored, tally, windowBegan, wedged, healFaults>>
queueVars == <<backlog, merging, submits>>
lifeVars == <<engine, life>>

-----------------------------------------------------------------------------
(* Submit, in two steps: the mutex is released before the send *)

\* An event of a pending key is merged within DedupeWindow, enqueued again after it.
Admit(r) ==
    /\ submits[r] = 0 /\ engine = "running"
    /\ \/ merging /\ UNCHANGED queueVars
       \/ merging' = TRUE /\ submits' = [submits EXCEPT ![r] = life] /\ UNCHANGED backlog
    /\ UNCHANGED <<lifeVars, heal, event, trial, budget, clock, circuitVars>>

\* The send goes to the queue that is current by then.
Enqueue(r) ==
    /\ submits[r] # 0 /\ submits' = [submits EXCEPT ![r] = 0]
    /\ IF Len(backlog) < QueueSize
       THEN backlog' = Append(backlog, submits[r]) /\ UNCHANGED merging
       ELSE merging' = FALSE /\ UNCHANGED backlog
    /\ UNCHANGED <<lifeVars, heal, event, trial, budget, clock, circuitVars>>

-----------------------------------------------------------------------------
(* The worker *)

Take ==
    /\ heal = "idle" /\ backlog # <<>> /\ backlog' = Tail(backlog)
    /\ IF engine = "stopping" THEN heal' = "gone" /\ UNCHANGED event
                              ELSE heal' = "checking" /\ event' = Head(backlog)
    /\ UNCHANGED <<lifeVars, merging, submits, trial, budget, clock, circuitVars>>

Leave ==
    /\ heal = "idle" /\ engine = "stopping" /\ heal' = "gone"
    /\ UNCHANGED <<lifeVars, queueVars, event, trial, budget, clock, circuitVars>>

EndEvent == heal' = "idle" /\ merging' = FALSE /\ UNCHANGED <<backlog, submits>>

\* The fault is gone, cannot be checked, is not repairable or is only observed.
NothingToHeal ==
    /\ heal = "checking" /\ EndEvent
    /\ UNCHANGED <<lifeVars, event, trial, budget, clock, circuitVars>>

Aged(rec) == IF rec.began = Never \/ clock >= rec.began + budget.window
             THEN ClosedSince(clock) ELSE rec

\* persistLocked, which a full or locked disk makes fail.
Persist(rec) ==
    \/ stored' = rec /\ UNCHANGED healFaults
    \/ healFaults < MaxHealFaults /\ healFaults' = healFaults + 1 /\ UNCHANGED stored

\* The window as the clock has it, whatever the record says.
CountWindow ==
    IF windowBegan = Never \/ clock >= windowBegan + budget.window
    THEN tally' = 0 /\ windowBegan' = clock ELSE UNCHANGED <<tally, windowBegan>>

\* Mutant: an attempt that is allowed does not keep its window.
AllowForgetful ==
    LET rec == Aged(circuit) IN
    /\ heal = "checking" /\ rec.openUntil = Never /\ rec.attempts < MaxAttempts
    /\ heal' = "waiting" /\ trial' = FALSE /\ CountWindow
    /\ UNCHANGED <<lifeVars, queueVars, event, budget, clock, circuit, stored, wedged, healFaults>>

\* budgetStore.begin: the circuit is closed.
Allow ==
    LET rec == Aged(circuit) IN
    /\ heal = "checking" /\ rec.openUntil = Never /\ rec.attempts < MaxAttempts
    /\ circuit' = rec /\ heal' = "waiting" /\ trial' = FALSE /\ CountWindow
    /\ wedged' = (wedged /\ rec.halfOpen)
    /\ UNCHANGED <<lifeVars, queueVars, event, budget, clock, stored, healFaults>>

\* begin: the cooldown is over and nobody tries; one trial, which is persisted.
AllowTrial ==
    LET rec == [Aged(circuit) EXCEPT !.halfOpen = TRUE] IN
    /\ heal = "checking" /\ Aged(circuit) = circuit
    /\ circuit.openUntil # Never /\ clock >= circuit.openUntil /\ ~circuit.halfOpen
    /\ circuit' = rec /\ Persist(rec)
    /\ IF stored' = rec
       THEN heal' = "waiting" /\ trial' = TRUE /\ UNCHANGED <<merging, wedged>>
       ELSE heal' = "idle" /\ merging' = FALSE /\ wedged' = TRUE /\ UNCHANGED trial
    /\ UNCHANGED <<lifeVars, backlog, submits, event, budget, clock, tally, windowBegan>>

\* begin: open, or a trial is marked as under way.
Refuse ==
    /\ heal = "checking" /\ Aged(circuit) = circuit /\ circuit.openUntil # Never
    /\ clock < circuit.openUntil \/ circuit.halfOpen
    /\ EndEvent /\ UNCHANGED <<lifeVars, event, trial, budget, clock, circuitVars>>

\* The backoff is over: Repair, Verify and, after a failure, Rollback.
Repair ==
    /\ heal = "waiting" /\ heal' = "repairing"
    /\ UNCHANGED <<lifeVars, queueVars, event, trial, budget, clock, circuitVars>>

\* Stop ends the backoff: the trial is given back.
Cancel ==
    LET rec == [circuit EXCEPT !.halfOpen = FALSE] IN
    /\ heal = "waiting" /\ engine = "stopping" /\ EndEvent
    /\ IF trial /\ circuit.halfOpen THEN circuit' = rec /\ Persist(rec)
                                    ELSE UNCHANGED <<circuit, stored, healFaults>>
    /\ UNCHANGED <<lifeVars, event, trial, budget, clock, tally, windowBegan, wedged>>

\* budgetStore.complete.
Succeeded ==
    LET rec == [circuit EXCEPT !.attempts = 0, !.openUntil = Never, !.halfOpen = FALSE] IN
    /\ heal = "repairing" /\ EndEvent /\ circuit' = rec /\ Persist(rec)
    /\ tally' = 0 /\ wedged' = FALSE
    /\ UNCHANGED <<lifeVars, event, trial, budget, clock, windowBegan>>

Failed ==
    LET tried == circuit.attempts + 1
        rec == [circuit EXCEPT !.attempts = tried, !.halfOpen = FALSE,
                    !.openUntil = IF tried >= MaxAttempts THEN clock + budget.cooldown ELSE @] IN
    /\ heal = "repairing" /\ EndEvent /\ circuit' = rec /\ Persist(rec)
    /\ tally' = IF trial THEN tally ELSE tally + 1
    /\ wedged' = FALSE /\ UNCHANGED <<lifeVars, event, trial, budget, clock, windowBegan>>

-----------------------------------------------------------------------------
(* The engine's life, time and the process *)

StartEngine ==
    /\ engine = "stopped" /\ life < MaxLives /\ life' = life + 1
    /\ engine' = "running" /\ heal' = "idle"
    /\ UNCHANGED <<queueVars, event, trial, budget, clock, circuitVars>>

StopEngine ==
    /\ engine = "running" /\ engine' = "stopping"
    /\ UNCHANGED <<life, queueVars, heal, event, trial, budget, clock, circuitVars>>

\* Stop goes on when the worker has left: a new queue, and nothing pending.
EngineStopped ==
    /\ engine = "stopping" /\ heal = "gone" /\ engine' = "stopped" /\ heal' = "none"
    /\ backlog' = <<>> /\ merging' = FALSE
    /\ UNCHANGED <<life, submits, event, trial, budget, clock, circuitVars>>

Tick ==
    /\ clock < MaxTime /\ clock' = clock + 1
    /\ UNCHANGED <<lifeVars, queueVars, heal, event, trial, budget, circuitVars>>

\* The process dies: the next one reads the file.
DieHealing ==
    /\ engine # "stopped" /\ healFaults < MaxHealFaults /\ healFaults' = healFaults + 1
    /\ engine' = "stopped" /\ heal' = "none" /\ backlog' = <<>> /\ merging' = FALSE
    /\ submits' = [r \in Reporters |-> 0] /\ circuit' = stored
    /\ wedged' = (wedged \/ stored.halfOpen)
    /\ UNCHANGED <<life, event, trial, stored, budget, clock, tally, windowBegan>>

HealNext ==
    \/ \E r \in Reporters : Admit(r) \/ Enqueue(r)
    \/ Take \/ Leave \/ NothingToHeal \/ Allow \/ AllowTrial \/ Refuse
    \/ Repair \/ Cancel \/ Succeeded \/ Failed
    \/ StartEngine \/ StopEngine \/ EngineStopped \/ Tick \/ DieHealing

-----------------------------------------------------------------------------
(* Properties *)

HealTypeOK ==
    /\ engine \in {"stopped", "running", "stopping"} /\ life \in 0..MaxLives
    /\ heal \in {"none", "idle", "checking", "waiting", "repairing", "gone"}
    /\ Len(backlog) <= QueueSize /\ merging \in BOOLEAN /\ trial \in BOOLEAN
    /\ circuit.attempts \in 0..MaxTime + MaxAttempts /\ clock \in 0..MaxTime

\* One window sees at most MaxAttempts failed repairs and then only trials after a
\* cooldown, across restarts of the engine, unless the record could not be written
\* or the process died with it (engine.go:200-203, state.go:62-106).
BudgetHolds == tally <= MaxAttempts \/ healFaults > 0

\* A circuit is half-open only while its trial is under way, or after a fault that
\* left the mark behind (state.go:83-95, engine.go:222-229).
TrialIsReleased == circuit.halfOpen => wedged \/ (trial /\ heal \in {"waiting", "repairing"})

\* An event admitted by an earlier life of the engine is never repaired in a later
\* one (engine.go:99-103).
StaleNeverRuns == heal \in {"checking", "waiting", "repairing"} => event = life

\* While the circuit is open its repair is not tried again (engine guide 17.4).
CooldownHolds == [][heal = "checking" /\ heal' = "waiting" =>
                        circuit.openUntil = Never \/ clock >= circuit.openUntil]_healVars

\* The circuit breaker limits what it lets through and is not left half-open:
\* BudgetHolds and TrialIsReleased (internal/selfheal/state.go:56-141).
BreakerIsSafe == BudgetHolds /\ TrialIsReleased
=============================================================================
