---------------------------- MODULE RulesEngineLoop ----------------------------
(* The loop of the rules engine (services/rules-engine): a pass evaluates every *)
(* rule on every vehicle, batch by batch and rule by rule, then decays the risk *)
(* scores; a failure ends the pass, and a timer starts the next one. The        *)
(* decisions of a batch and a rule are dealt to a few workers. Promise.all      *)
(* gives up at the first worker that fails and leaves the others running.       *)
(*                                                                              *)
(* What an evaluation does is AnomalyLifecycle and RiskScore; here it finishes  *)
(* or fails.                                                                    *)
EXTENDS Naturals, FiniteSets, SequencesExt

CONSTANTS
    Fleet,          \* the vehicles, in the order fetchVehicles returns them
    Rules,          \* the evaluators, in the order runRules calls them
    Queried,        \* Queried[r]: vehicles whose telemetry rule r has to query
    BatchSize,      \* RULE_BATCH_SIZE
    Concurrencies,  \* values of RULE_EVALUATION_CONCURRENCY
    Passes,         \* bound: identities of passes with evaluations in flight
    MaxStops,       \* bound: failed queries and decays, restarts
    MaxChanges      \* bound: times an evaluation starts or stops failing

VehicleIds == ToSet(Fleet)
RuleIds == ToSet(Rules)

ASSUME LoopAssumption ==
    /\ Fleet \in Seq(VehicleIds) /\ IsInjective(Fleet) /\ Fleet # <<>>
    /\ Rules \in Seq(RuleIds) /\ IsInjective(Rules) /\ Rules # <<>>
    /\ Queried \in [RuleIds -> SUBSET VehicleIds]
    /\ BatchSize \in Nat \ {0}
    /\ Concurrencies \subseteq Nat \ {0}
    /\ {MaxStops, MaxChanges} \subseteq Nat

VARIABLES
    concurrency,
    phase,      \* the loop: its timer runs, it evaluates, it decays
    pass,       \* the identity of the pass at work, or of the last one
    group,      \* which batch and rule the pass is at
    dealt,      \* are the decisions of that group with the workers
    threads,    \* the workers of runWithConcurrency, of failed passes too
    evaluated,  \* <<vehicle, rule>> the pass has evaluated (history)
    failing,    \* <<vehicle, rule>> whose evaluation fails at present
    stops, changes

engine == <<phase, pass, group, dealt, threads, evaluated>>
loopVars == <<concurrency, engine, failing, stops, changes>>
-----------------------------------------------------------------------------
(* The order of the work.                                                    *)

Least(a, b) == IF a < b THEN a ELSE b

ChunkStart(b) == (b - 1) * BatchSize + 1
chunkArray == [b \in 1 .. (Len(Fleet) + BatchSize - 1) \div BatchSize |->
                 SubSeq(Fleet, ChunkStart(b), Least(b * BatchSize, Len(Fleet)))]

\* A group is the evaluation of one rule on one batch.
Groups == 1 .. Len(chunkArray) * Len(Rules)
RuleOf(g) == Rules[1 + ((g - 1) % Len(Rules))]
BatchOf(g) == chunkArray[1 + ((g - 1) \div Len(Rules))]

\* The vehicles of a batch that are in S. (SelectSeq, as a recursive function.)
Only(batch, S) ==
    LET upTo[n \in 0..Len(batch)] ==
            IF n = 0 THEN <<>>
            ELSE IF batch[n] \in S THEN Append(upTo[n - 1], batch[n]) ELSE upTo[n - 1]
    IN  upTo[Len(batch)]

\* Its decisions: first those that need no telemetry, then the queried ones.
DecisionsOf(g) ==
    Only(BatchOf(g), VehicleIds \ Queried[RuleOf(g)]) \o Only(BatchOf(g), Queried[RuleOf(g)])

Decisions == [g \in Groups |-> DecisionsOf(g)]

Pairs == VehicleIds \X RuleIds

WorkerCount(g) == Least(concurrency, Len(Decisions[g]))

\* What a worker is evaluating.
VehicleOf(t) == Decisions[t.group][t.item]
PairOf(t) == <<VehicleOf(t), RuleOf(t.group)>>

\* Does the loop still wait for it.
Awaited(t) == phase = "evaluating" /\ t.pass = pass

LoopInit ==
    /\ concurrency \in Concurrencies
    /\ phase = "resting" /\ pass \in Passes /\ group = 1 /\ dealt = FALSE
    /\ threads = {} /\ evaluated = {}
    /\ failing \in {{}} \cup {{p} : p \in Pairs}
    /\ stops = 0 /\ changes = 0
-----------------------------------------------------------------------------
(* The loop.                                                                 *)

\* The timer. Evaluations of failed passes may still run.
StartPass ==
    /\ phase = "resting"
    /\ pass' \in Passes \ {t.pass : t \in threads}
    /\ phase' = "evaluating" /\ group' = 1 /\ dealt' = FALSE /\ evaluated' = {}
    /\ UNCHANGED <<concurrency, threads, failing, stops, changes>>

\* The telemetry is there and the workers start, each on an item of its own.
Deal ==
    /\ phase = "evaluating" /\ ~dealt
    /\ dealt' = TRUE
    /\ threads' = threads \cup
         {[pass |-> pass, group |-> group, worker |-> w, item |-> w] : w \in 1..WorkerCount(group)}
    /\ UNCHANGED <<concurrency, phase, pass, group, evaluated, failing, stops, changes>>

\* fetchVehicles, a telemetry query or the decay fails: the pass is over, and
\* finally sets the timer.
QueryFails ==
    /\ phase = "decay" \/ (phase = "evaluating" /\ ~dealt)
    /\ stops < MaxStops /\ stops' = stops + 1
    /\ phase' = "resting"
    /\ UNCHANGED <<concurrency, pass, group, dealt, threads, evaluated, failing, changes>>

NextGroupUnawaited ==
    /\ phase = "evaluating" /\ dealt
    /\ IF group + 1 \in Groups
         THEN group' = group + 1 /\ dealt' = FALSE /\ UNCHANGED phase
         ELSE phase' = "decay" /\ UNCHANGED <<group, dealt>>
    /\ UNCHANGED <<concurrency, pass, threads, evaluated, failing, stops, changes>>

\* Promise.all resolves: the next rule, the next batch, or the decay.
NextGroup ==
    /\ phase = "evaluating" /\ dealt
    /\ ~ \E t \in threads : Awaited(t)
    /\ IF group + 1 \in Groups
         THEN group' = group + 1 /\ dealt' = FALSE /\ UNCHANGED phase
         ELSE phase' = "decay" /\ UNCHANGED <<group, dealt>>
    /\ UNCHANGED <<concurrency, pass, threads, evaluated, failing, stops, changes>>

Decay ==
    /\ phase = "decay"
    /\ phase' = "resting"
    /\ UNCHANGED <<concurrency, pass, group, dealt, threads, evaluated, failing,
                   stops, changes>>
-----------------------------------------------------------------------------
(* A worker.                                                                 *)

AdvanceByOne(t) == [t EXCEPT !.item = @ + 1]

\* It takes every WorkerCount-th item.
Advance(t) == [t EXCEPT !.item = @ + WorkerCount(t.group)]

EvaluateOneTooMany(t) ==
    /\ PairOf(t) \notin failing
    /\ threads' = (threads \ {t}) \cup
                    {u \in {Advance(t)} : u.item <= Len(Decisions[t.group]) + 1}
    /\ evaluated' = IF Awaited(t) THEN evaluated \cup {PairOf(t)} ELSE evaluated
    /\ UNCHANGED <<concurrency, phase, pass, group, dealt, failing, stops, changes>>
EvaluateOneItem(t) ==
    /\ PairOf(t) \notin failing
    /\ threads' = threads \ {t}
    /\ evaluated' = IF Awaited(t) THEN evaluated \cup {PairOf(t)} ELSE evaluated
    /\ UNCHANGED <<concurrency, phase, pass, group, dealt, failing, stops, changes>>

Evaluate(t) ==
    /\ PairOf(t) \notin failing
    /\ threads' = (threads \ {t}) \cup
                    {u \in {Advance(t)} : u.item <= Len(Decisions[t.group])}
    /\ evaluated' = IF Awaited(t) THEN evaluated \cup {PairOf(t)} ELSE evaluated
    /\ UNCHANGED <<concurrency, phase, pass, group, dealt, failing, stops, changes>>

\* The transaction is rolled back and the worker ends; the pass, if it waits
\* for it, ends too.
EvaluationFails(t) ==
    /\ PairOf(t) \in failing
    /\ threads' = threads \ {t}
    /\ phase' = IF Awaited(t) THEN "resting" ELSE phase
    /\ UNCHANGED <<concurrency, pass, group, dealt, evaluated, failing, stops, changes>>
-----------------------------------------------------------------------------
(* Around it.                                                                *)

Restart ==
    /\ stops < MaxStops /\ stops' = stops + 1
    /\ phase' = "resting" /\ threads' = {}
    /\ concurrency' \in Concurrencies
    /\ UNCHANGED <<pass, group, dealt, evaluated, failing, changes>>

\* Data that one rule's transaction chokes on comes and goes.
FailureChanges(p) ==
    /\ changes < MaxChanges /\ changes' = changes + 1
    /\ failing' = IF p \in failing THEN failing \ {p} ELSE failing \cup {p}
    /\ UNCHANGED <<concurrency, engine, stops>>

Loop == StartPass \/ Deal \/ NextGroup \/ Decay

\* A worker of a pass has one item at a time.
WorkerGoesOn(p, w) ==
    \E t \in threads : t.pass = p /\ t.worker = w /\ (Evaluate(t) \/ EvaluationFails(t))

LoopNext ==
    \/ Loop
    \/ \E t \in threads : Evaluate(t) \/ EvaluationFails(t)
    \/ QueryFails \/ Restart
    \/ \E p \in Pairs : FailureChanges(p)

LoopSpec == LoopInit /\ [][LoopNext]_loopVars

\* finally re-arms the timer whatever the pass threw, and every await ends: a
\* statement returns or the connection is given up.
FairLoopSpec ==
    /\ LoopSpec /\ WF_loopVars(Loop)
    /\ \A p \in Passes, w \in 1..Len(Fleet) : WF_loopVars(WorkerGoesOn(p, w))
-----------------------------------------------------------------------------
(* Properties                                                                *)

Slots == [pass : Passes, group : Groups, worker : 1..Len(Fleet), item : 1..Len(Fleet)]

\* Types.
LoopTypeOK ==
    /\ concurrency \in Concurrencies
    /\ phase \in {"resting", "evaluating", "decay"}
    /\ pass \in Passes /\ group \in Groups /\ dealt \in BOOLEAN
    /\ threads \subseteq {s \in Slots : s.item <= Len(Decisions[s.group])}
    /\ evaluated \subseteq Pairs /\ failing \subseteq Pairs
    /\ stops \in 0..MaxStops /\ changes \in 0..MaxChanges

\* AnomalyLifecycle assumes that a vehicle is in one transaction at a time. The
\* loop keeps it within a pass, and with the default of one worker always; two
\* evaluations of one vehicle meet only when workers of a failed pass are still
\* busy, which takes more than one of them.
OneEvaluationPerVehicle ==
    \A s, t \in threads :
        s # t /\ VehicleOf(s) = VehicleOf(t) => concurrency > 1 /\ s.pass # t.pass

\* The scores decay only in a pass that evaluated every rule on every vehicle:
\* chunks, dealing and waiting leave nobody out.
DecayAfterAll == phase = "decay" => evaluated = Pairs

\* What a pass does before it comes to p: the groups before p's, and in its
\* group the items before p's of its worker.
GroupOf(p) == CHOOSE g \in Groups : RuleOf(g) = p[2] /\ p[1] \in ToSet(BatchOf(g))
Ahead(p) ==
    LET g == GroupOf(p)
        n == CHOOSE k \in DOMAIN Decisions[g] : Decisions[g][k] = p[1]
    IN  {q \in Pairs : GroupOf(q) < g}
        \cup {<<Decisions[g][k], p[2]>> : k \in {j \in 1..n : j % WorkerCount(g) = n % WorkerCount(g)}}

\* A vehicle is evaluated by a rule again and again, whatever fails behind it:
\* only what a pass does before it can keep it from being served for ever. And the
\* scores decay again and again unless some evaluation keeps failing.
ServedUnlessFailureAhead ==
    /\ \A p \in Pairs :
         <>[](Ahead(p) \cap failing = {}) =>
             []<><<\E t \in threads : PairOf(t) = p /\ Evaluate(t)>>_loopVars
    /\ <>[](failing = {}) => []<><<Decay>>_loopVars
=============================================================================
