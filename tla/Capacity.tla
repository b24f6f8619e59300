------------------------------ MODULE Capacity ------------------------------
(***************************************************************************)
(* The capacity model: capacity/options.py, attribution.py, cost.py and    *)
(* queueing.py, with scenarios/validate.py and the second implementations  *)
(* of the same rules in diagnostics/analysis.py.                           *)
(*                                                                         *)
(* A scenario is an input.  The state is what experiments have measured;   *)
(* everything else is a function of the two.  A resolved plan is a record, *)
(* or Failed where the code raises; the parameters of an option may be     *)
(* missing.  Minutes are ticks of a day of Day ticks, and a time outside   *)
(* the day is one that cannot be read.  The lengths in the log of the job  *)
(* are half ticks, since what is written there need not be whole; decimal  *)
(* says that the longest has a decimal point, as 119.5 or 119.0.  CPU is   *)
(* counted in hundredths of a core; the prices of a card are whole numbers *)
(* per tick.                                                               *)
(***************************************************************************)
EXTENDS Integers, Sequences, FiniteSets, FiniteSetsExt, SequencesExt

CONSTANTS OptionIds,     \* the options of a scenario
          Scenarios,     \* the scenarios considered
          Candidates,    \* index candidates and rewrites
          Effects,       \* what an experiment may measure
          Vcpu,          \* the catalog: vCPU of each instance class
          Writer,        \* the instance class of the writer
          Tenants,
          Fingerprints, Sensitive, Contended,   \* statements, and which follow the campaign or the batch job
          Rate, Cpu,     \* calls of a statement by a tenant, CPU per call of a statement
          LockWait,      \* what a contended statement waits for during the batch job
          Wait,          \* Wait[servers, demand]: the 95th percentile of the wait of an unsaturated queue
          P95,           \* the objective
          Threshold,     \* utilization threshold, percent
          Day, HorizonStart, HorizonEnd, SlotLength, Month

ASSUME CapacityAssumption ==
    /\ {Day, SlotLength} \subseteq Nat \ {0}
    /\ HorizonStart \in 0..Day /\ HorizonEnd \in HorizonStart..Day
    /\ Writer \in DOMAIN Vcpu
    /\ \A c \in DOMAIN Vcpu : Vcpu[c] \in Nat \ {0}
    /\ IsFiniteSet(OptionIds)

Kinds == {"keep", "scale_temporary", "scale_season", "optimize_index", "optimize_rewrite", "reschedule_batch",
          "resize_permanent", "combined"}

\* What an option is of, the classes it asks for and what it is made of are known, as the schema and validation see to;
\* whether it has its parameters is left open.
ASSUME ScenariosAssumption ==
    \A s \in Scenarios :
        /\ {s.batch.start, s.batch.declared, s.batch.deadline, s.campaign.from, s.campaign.until} \subseteq Int
        /\ s.batch.log \in SUBSET Nat /\ IsFiniteSet(s.batch.log)
        /\ s.batch.decimal \in BOOLEAN
        /\ \A d \in s.batch.log : (\A e \in s.batch.log : e <= d) /\ ~s.batch.decimal => d % 2 = 0
        /\ \A o \in OptionIds :
            LET opt == s.options[o] IN
            /\ opt.kind \in Kinds
            /\ opt.kind = "combined" /\ "components" \in DOMAIN opt => opt.components \in Seq(OptionIds)

VARIABLES scenario, registered
capacityVars == <<scenario, registered>>

Classes == DOMAIN Vcpu
Unmeasured == [measured |-> FALSE]
Failed == [ok |-> FALSE]
NoCard == [aws |-> FALSE, hourly |-> <<>>]

SlotCount == (HorizonEnd - HorizonStart + SlotLength - 1) \div SlotLength
Slots == 1..SlotCount
At(i) == HorizonStart + (i - 1) * SlotLength

Least(a, b) == IF a <= b THEN a ELSE b
Greatest(a, b) == IF a >= b THEN a ELSE b

Clock == 0..Day

\* What _resolve takes from the parameters of an option and cannot do without.
Required(kind) ==
    CASE kind = "scale_temporary" -> {"target", "from", "until"}
      [] kind = "scale_season" -> {"target", "days"}
      [] kind = "resize_permanent" -> {"target"}
      [] kind \in {"optimize_index", "optimize_rewrite"} -> {"candidate"}
      [] kind = "reschedule_batch" -> {"to"}
      [] kind = "combined" -> {"components"}
      [] OTHER -> {}

\* A parameter is not there: a KeyError.  A number of days that is no number is as good as missing.
Missing(opt) == ~(Required(opt.kind) \subseteq DOMAIN opt)

\* hhmm_to_minutes raises for what is no time of a day.
Unreadable(opt) ==
    \/ opt.kind = "scale_temporary" /\ ~({opt.from, opt.until} \subseteq Clock)
    \/ opt.kind = "reschedule_batch" /\ opt.to \notin Clock

Resizes == {"scale_temporary", "scale_season", "resize_permanent"}
NodesOf(opt) == IF "nodes" \in DOMAIN opt THEN opt.nodes ELSE {"writer"}

-----------------------------------------------------------------------------
(* Prices.                                                                 *)

NeededClasses ==
    {Writer} \cup ToSet(scenario.readers)
      \cup {scenario.options[o].target : o \in {p \in OptionIds : "target" \in DOMAIN scenario.options[p]}}

\* choose_rate_card: the latest card imported from AWS that covers every class, else the scenario's own.
RateCard ==
    LET covering == {k \in DOMAIN scenario.cards :
                       /\ scenario.cards[k].aws
                       /\ NeededClasses \subseteq DOMAIN scenario.cards[k].hourly}
        own == {k \in DOMAIN scenario.cards : ~scenario.cards[k].aws}
    IN  IF covering # {} THEN scenario.cards[CHOOSE k \in covering : \A j \in covering : j <= k]
        ELSE IF own # {} THEN scenario.cards[CHOOSE k \in own : \A j \in own : k <= j]
        ELSE NoCard

Priced == RateCard # NoCard

\* The class a node has now; None where the code indexes an empty list of readers.
None == "none"
Current(node) == IF node = "writer" THEN Writer
                 ELSE IF scenario.readers = <<>> THEN None ELSE Head(scenario.readers)

\* What resizing the nodes costs per tick.
Delta(nodes, target) == MapThenSumSet(LAMBDA n : RateCard.hourly[target] - RateCard.hourly[Current(n)], nodes)

\* A permanent resize names the first of the nodes and the class of a reader in its events, so it needs a node, and
\* the reader, without a card too.
CanResize(opt) ==
    LET nodes == NodesOf(opt)
        permanent == opt.kind = "resize_permanent"
    IN  /\ permanent => nodes # {}
        /\ Priced \/ permanent => \A n \in nodes : Current(n) # None
        /\ Priced => \A n \in nodes : {opt.target, Current(n)} \subseteq DOMAIN RateCard.hourly

-----------------------------------------------------------------------------
(* Resolving an option into a plan.                                        *)

\* The longest run, in half ticks.
LongestRun == CHOOSE d \in scenario.batch.log : \A e \in scenario.batch.log : e <= d

\* int(max(...)): what is not a whole tick is cut off.
BatchDuration == IF scenario.batch.log = {} THEN scenario.batch.declared ELSE LongestRun \div 2

\* The times of the job that are read for every option: when it starts, and when it is due if it takes any time.
JobUnreadable ==
    /\ scenario.batch.planned
    /\ scenario.batch.start \notin Clock \/ (BatchDuration # 0 /\ scenario.batch.deadline \notin Clock)

\* Mutant: the day a moved job waits is forgotten.
DeadlineOkSameDay(start, nextDay, duration) == start + duration <= Day + scenario.batch.deadline

BatchDeadlineOk(start, nextDay, duration) ==
    start + duration + (IF nextDay THEN Day ELSE 0) <= Day + scenario.batch.deadline

Judged(plan) ==
    [plan EXCEPT !.deadline =
        IF ~scenario.batch.planned \/ BatchDuration = 0 THEN "none"
        ELSE IF BatchDeadlineOk(plan.start, plan.nextDay, BatchDuration) THEN "met" ELSE "missed"]

NodeInstance == IF scenario.evaluated = "reader" /\ scenario.readers # <<>> THEN Head(scenario.readers) ELSE Writer

BasePlan ==
    [ok |-> TRUE, class |-> [i \in Slots |-> NodeInstance], start |-> scenario.batch.start, nextDay |-> FALSE,
     effects |-> <<>>, event |-> 0, month |-> 0, unknown |-> FALSE, deadline |-> "none"]

\* A writer that changes class fails over; how long that takes is unknown unless an assumption says so.  A
\* reader resized for good is a failover target whose case is not evaluated: the
\* code asks the first node listed only, and every shipped list starts with the writer.
WriterFailover(opt) == "writer" \in NodesOf(opt) /\ ~scenario.failoverKnown
FailoverTarget(opt) == opt.kind = "resize_permanent" /\ "writer" \notin NodesOf(opt)

Resize(opt) ==
    LET held == CASE opt.kind = "scale_temporary" -> {i \in Slots : opt.from <= At(i) /\ At(i) < opt.until}
                  [] OTHER -> Slots
        ticks == CASE opt.kind = "scale_temporary" -> opt.until - opt.from
                   [] opt.kind = "scale_season" -> Day * opt.days
                   [] OTHER -> Month
        cost == IF Priced THEN Delta(NodesOf(opt), opt.target) * ticks ELSE 0
    IN  IF ~CanResize(opt) THEN Failed
        ELSE [BasePlan EXCEPT !.class = [i \in Slots |-> IF i \in held THEN opt.target ELSE NodeInstance],
                              !.event = IF opt.kind = "resize_permanent" THEN 0 ELSE cost,
                              !.month = IF opt.kind = "resize_permanent" THEN cost ELSE 0,
                              !.unknown = WriterFailover(opt) \/ FailoverTarget(opt)]

\* Nothing is gained before an experiment measured it, nor by a rewrite that returned other rows.
Optimize(opt) ==
    LET effect == registered[opt.candidate]
    IN  CASE ~effect.measured -> [BasePlan EXCEPT !.unknown = TRUE]
          [] effect.measured /\ opt.kind = "optimize_rewrite" /\ ~effect.equivalent ->
               [BasePlan EXCEPT !.unknown = TRUE]
          [] OTHER -> [BasePlan EXCEPT !.effects = <<opt.candidate>>,
                                       !.month = IF opt.kind = "optimize_index" /\ Priced THEN effect.storage ELSE 0,
                                       !.unknown = opt.kind = "optimize_rewrite"]

Reschedule(opt) ==
    IF ~scenario.batch.planned THEN Failed
    ELSE [BasePlan EXCEPT !.start = opt.to, !.nextDay = opt.to < HorizonStart]

Leaf(opt) ==
    IF Missing(opt) \/ Unreadable(opt) THEN Failed
    ELSE CASE opt.kind = "keep" -> BasePlan
           [] opt.kind \in Resizes -> Resize(opt)
           [] opt.kind \in {"optimize_index", "optimize_rewrite"} -> Optimize(opt)
           [] opt.kind = "reschedule_batch" -> Reschedule(opt)

\* Mutant: the last component wins.
Later(c, d) == d

Bigger(c, d) == IF Vcpu[d] > Vcpu[c] THEN d ELSE c

\* Mutant: a component that cannot be resolved is left out.
CombineWhatResolves(plan, sub) == IF sub.ok THEN [plan EXCEPT !.month = @ + sub.month] ELSE plan

\* The larger class of each slot, the last component that moves the batch job, and the sum of the rest.
Combine(plan, sub) ==
    IF ~plan.ok \/ ~sub.ok THEN Failed
    ELSE LET moves == sub.start # scenario.batch.start IN
         [plan EXCEPT !.class = [i \in Slots |-> Bigger(plan.class[i], sub.class[i])],
                      !.start = IF moves THEN sub.start ELSE @,
                      !.nextDay = IF moves THEN sub.nextDay ELSE @,
                      !.effects = @ \o sub.effects,
                      !.event = @ + sub.event,
                      !.month = @ + sub.month,
                      !.unknown = @ \/ sub.unknown]

Finished(plan) == IF plan.ok /\ ~JobUnreadable THEN Judged(plan) ELSE Failed

\* The components one after the other, of which sub has the plans.
Assemble(sub, components) ==
    LET upTo[n \in 0..Len(components)] == IF n = 0 THEN BasePlan ELSE Combine(upTo[n - 1], sub[components[n]])
    IN  upTo[Len(components)]

\* _resolve: seen is the path of options that led here.
Resolve[seen \in SUBSET OptionIds] ==
    [o \in OptionIds |->
        LET opt == scenario.options[o] IN
        IF o \in seen THEN Failed
        ELSE IF opt.kind # "combined" \/ Missing(opt) THEN Finished(Leaf(opt))
        ELSE Finished(Assemble(Resolve[seen \cup {o}], opt.components))]

Plan(o) == Resolve[{}][o]

-----------------------------------------------------------------------------
(* The forecast, and what an option does in each slot.                     *)

\* Horizon.slot_index: the slot that holds a time, from 0, clamped to the horizon.
SlotIndex(t) == Greatest(0, Least(SlotCount, (t - HorizonStart) \div SlotLength))

\* A campaign multiplies what its tenant calls of sensitive statements, from the slot that holds its start.
Surged(i) == SlotIndex(scenario.campaign.from) < i /\ i <= SlotIndex(scenario.campaign.until)

Calls(f, t, i) ==
    Rate[f][t] * (IF f \in Sensitive /\ t = scenario.campaign.tenant /\ Surged(i) THEN scenario.campaign.factor ELSE 1)

\* evaluate_slot, for the calls, the CPU per call and the lock wait of each statement.
EvaluateSlot(vcpu, loads, reserved) ==
    LET used == MapThenSumSet(LAMBDA f : loads[f].qps * loads[f].cpu, Fingerprints)
        left == vcpu * 100 - reserved
        servers == Greatest(1, left \div 100)
        saturated == used >= left \/ used >= servers * 100
    IN  [demand |-> used + reserved,
         over |-> used + reserved > Threshold * vcpu,
         breached |-> \/ saturated
                      \/ \E f \in Fingerprints : loads[f].cpu + Wait[servers, used] + loads[f].extra > P95]

\* evaluate_option: each effect of the plan multiplies, also one that is there twice.
Evaluate(plan) ==
    LET active(i) == /\ scenario.batch.planned /\ ~plan.nextDay
                     /\ At(i) < plan.start + BatchDuration /\ At(i) + SlotLength > plan.start
        cpu(f) == FoldLeft(LAMBDA sofar, c : (sofar * registered[c].multiplier[f]) \div 100, Cpu[f], plan.effects)
        load(f, i) == [qps |-> MapThenSumSet(LAMBDA t : Calls(f, t, i), Tenants), cpu |-> cpu(f),
                       extra |-> IF active(i) /\ f \in Contended THEN LockWait ELSE 0]
    IN  [i \in Slots |-> EvaluateSlot(Vcpu[plan.class[i]], [f \in Fingerprints |-> load(f, i)],
                                      IF active(i) THEN scenario.batch.cores * 100 ELSE 0)]

\* Mutant: a job of the next day is blamed too.
JobRunsAnyDay(plan, i) ==
    scenario.batch.planned /\ At(i) < plan.start + BatchDuration /\ At(i) + SlotLength > plan.start

JobRuns(plan, i) ==
    /\ scenario.batch.planned /\ ~plan.nextDay
    /\ At(i) < plan.start + BatchDuration /\ At(i) + SlotLength > plan.start

\* attribute, which walks the slots by itself and divides each that matters by statement and by tenant.
Attribute(plan) ==
    LET cpu(f) == FoldLeft(LAMBDA sofar, c : (sofar * registered[c].multiplier[f]) \div 100, Cpu[f], plan.effects)
        qps(f, i) == MapThenSumSet(LAMBDA t : Calls(f, t, i), Tenants)
        extra(f, i) == IF JobRuns(plan, i) /\ f \in Contended THEN LockWait ELSE 0
        reserved(i) == IF JobRuns(plan, i) THEN scenario.batch.cores * 100 ELSE 0
        result(i) == EvaluateSlot(Vcpu[plan.class[i]],
                         [f \in Fingerprints |-> [qps |-> qps(f, i), cpu |-> cpu(f), extra |-> extra(f, i)]],
                         reserved(i))
    IN  [i \in {j \in Slots : result(j).breached \/ result(j).over} |->
            [demand |-> result(i).demand, job |-> reserved(i),
             statement |-> [f \in Fingerprints |-> qps(f, i) * cpu(f)],
             tenant |-> [t \in Tenants |-> MapThenSumSet(LAMBDA f : Calls(f, t, i) * cpu(f), Fingerprints)]]]

\* _revenue_at_risk counts the breached ones among the slots that begin inside the event.
SaleSlots == {i \in Slots : scenario.campaign.from <= At(i) /\ At(i) < scenario.campaign.until}

-----------------------------------------------------------------------------
(* What other parts of the program compute from the same scenario.         *)

\* batch_reschedule_check, for one candidate start.  The longest run is taken as it is written; when that has a
\* decimal point, the clock of the end cannot be formatted and the call raises.
RescheduleCheck(start) ==
    LET longest == IF scenario.batch.log = {} THEN 2 * scenario.batch.declared ELSE LongestRun
        from == start + (IF start < HorizonStart THEN Day ELSE 0)
        end == 2 * from + longest
    IN  [given |-> scenario.batch.deadline \in Clock /\ (scenario.batch.log = {} \/ ~scenario.batch.decimal),
         meets |-> end <= 2 * (Day + scenario.batch.deadline),
         overlaps |-> from < scenario.campaign.until /\ end > 2 * scenario.campaign.from]

\* validate_scenario, as far as options and the job go: TRUE when it reports no error.  The start of the job is the
\* only time of the two that it reads, and a scale_temporary the only kind whose parameters it asks for.
Validated ==
    /\ \A o \in OptionIds :
        LET opt == scenario.options[o] IN
        /\ opt.kind = "combined" /\ "components" \in DOMAIN opt => o \notin ToSet(opt.components)
        /\ opt.kind = "reschedule_batch" => scenario.batch.planned
        /\ opt.kind = "scale_temporary" => ~Missing(opt)
        /\ "target" \in DOMAIN opt => opt.target \in Classes
    /\ Writer \in Classes /\ ToSet(scenario.readers) \subseteq Classes
    /\ scenario.batch.planned => scenario.batch.start \in Clock

CapacityInit == scenario \in Scenarios /\ registered = [c \in Candidates |-> Unmeasured]

\* An experiment registers what it measured, in place of an earlier measurement.
Register(c) == \E e \in Effects[c] : registered' = [registered EXCEPT ![c] = e] /\ UNCHANGED scenario

CapacityNext == \E c \in Candidates : Register(c)
CapacitySpec == CapacityInit /\ [][CapacityNext]_capacityVars

-----------------------------------------------------------------------------
(* Properties.                                                             *)

\* What an option is made of, without regard to the order or the path.
Components(o) ==
    LET opt == scenario.options[o]
    IN  IF opt.kind = "combined" /\ ~Missing(opt) THEN ToSet(opt.components) ELSE {}
Closed(S) == \A x \in S : Components(x) \subseteq S
Below(o) == {x \in OptionIds : \A S \in SUBSET OptionIds : Components(o) \subseteq S /\ Closed(S) => x \in S}
Acyclic(o) == \A x \in Below(o) \cup {o} : x \notin Below(x)
Leaves[o \in OptionIds] ==
    IF scenario.options[o].kind # "combined" THEN <<o>>
    ELSE FlattenSeq([k \in DOMAIN scenario.options[o].components |-> Leaves[scenario.options[o].components[k]]])

\* What an option raises for by itself ...
Raises(opt) == Missing(opt) \/ (opt.kind # "combined" /\ ~Leaf(opt).ok)

\* ... and what of that validation does not ask for.
Unasked(opt) ==
    \/ opt.kind # "scale_temporary" /\ Missing(opt)
    \/ ~Missing(opt) /\ (Unreadable(opt) \/ (opt.kind \in Resizes /\ ~CanResize(opt)))

\* _resolve raises for an option exactly when the times of the job cannot be read, or what the option refers to has
\* a cycle or holds an option that raises by itself: an option reached along two paths is no cycle, and no order of
\* the components hides a failure.  In a scenario without validation errors these are left to raise: a cycle of
\* several options, a deadline of the job that is no time, and an option that lacks a parameter other than those of
\* scale_temporary, has a time that cannot be read, or resizes a reader that is not there, no node at all, or a class
\* without a price (options.py:217-348, validate.py:32-101).
ResolvesUnlessBroken ==
    \A o \in OptionIds :
        LET parts == Below(o) \cup {o}
        IN  /\ Plan(o).ok <=> ~JobUnreadable /\ Acyclic(o) /\ \A x \in parts : ~Raises(scenario.options[x])
            /\ Validated /\ ~Plan(o).ok =>
                   \/ ~Acyclic(o)
                   \/ scenario.batch.planned /\ scenario.batch.deadline \notin Clock
                   \/ \E x \in parts : Unasked(scenario.options[x])

\* A combined plan is its leaves, however they are nested: in each slot the largest class among the node's own
\* and the leaves', the batch job where the last leaf that moves it puts it, and every effect and cost as often as
\* there are paths to it.  A smaller class so saves money in it without ever taking effect (options.py:326-340).
CombinedIsItsLeaves ==
    \A o \in OptionIds : Components(o) # {} /\ Plan(o).ok =>
        LET plan == Plan(o)
            leaf == [k \in DOMAIN Leaves[o] |-> Plan(Leaves[o][k])]
            movers == {k \in DOMAIN leaf : leaf[k].start # scenario.batch.start}
        IN  /\ \A i \in Slots : Vcpu[plan.class[i]] =
                  Max({Vcpu[NodeInstance]} \cup {Vcpu[leaf[k].class[i]] : k \in DOMAIN leaf})
            /\ plan.start = IF movers = {} THEN scenario.batch.start ELSE leaf[Max(movers)].start
            /\ plan.effects = FlattenSeq([k \in DOMAIN leaf |-> leaf[k].effects])
            /\ plan.month = MapThenSumSet(LAMBDA k : leaf[k].month, DOMAIN leaf)
            /\ plan.event = MapThenSumSet(LAMBDA k : leaf[k].event, DOMAIN leaf)
            /\ plan.unknown <=> \E k \in DOMAIN leaf : leaf[k].unknown

\* A job that stays at a start before the horizon: only the check takes it for the next day.
StaysEarly(plan) == plan.start = scenario.batch.start /\ plan.start < HorizonStart /\ ~plan.nextDay

\* The verdict of a plan on the batch deadline is that of batch_reschedule_check for the start of the plan, although
\* one cuts the longest run off at a whole minute.  There is none from a plan whose job takes no time, and none from
\* the check when the longest run has a decimal point (options.py:161-167, 212-214, 344-347, diagnostics/analysis.py:147-180).
DeadlineAgrees ==
    \A o \in OptionIds :
        LET plan == Plan(o)
            check == RescheduleCheck(plan.start)
        IN  plan.ok /\ scenario.batch.planned /\ ~StaysEarly(plan) =>
                \/ plan.deadline = "none" /\ BatchDuration = 0
                \/ ~check.given /\ scenario.batch.decimal
                \/ check.given /\ ((plan.deadline = "met") <=> check.meets)

\* Where the check says that the job misses the sale, the forecast has it run in no slot of the sale but the one that
\* holds its end (options.py:400-405, diagnostics/analysis.py:160-170).
OverlapAgrees ==
    \A o \in OptionIds :
        LET plan == Plan(o)
            check == RescheduleCheck(plan.start)
        IN  plan.ok /\ scenario.batch.planned /\ check.given /\ ~StaysEarly(plan) /\ ~plan.nextDay /\ ~check.overlaps =>
                \A i \in SaleSlots :
                    At(i) < plan.start + BatchDuration /\ At(i) + SlotLength > plan.start =>
                        scenario.campaign.until < At(i) + SlotLength

\* attribute explains the slots evaluate_option counts and no others, and "the shares add up to the modeled
\* utilization rather than to a separate estimate" (attribution.py:9-10): those of the statements and the job to the
\* demand the forecast has, those of the tenants to it without the job, which is blamed for none when it was moved to
\* the next day (attribution.py:116-176, options.py:381-426).
SharesAddUp ==
    \A o \in OptionIds : Plan(o).ok =>
        LET told == Attribute(Plan(o))
            slot == Evaluate(Plan(o))
            total(share) == MapThenSumSet(LAMBDA x : share[x], DOMAIN share)
        IN  /\ DOMAIN told = {i \in Slots : slot[i].breached \/ slot[i].over}
            /\ \A i \in DOMAIN told :
                /\ total(told[i].statement) + told[i].job = slot[i].demand
                /\ total(told[i].tenant) + told[i].job = slot[i].demand
                /\ Plan(o).nextDay => told[i].job = 0

\* The slots whose revenue is at risk and the slots the campaign's calls rise in are cut in two ways.  They differ
\* at most in the slot that holds the start, which rises and is not counted, and the one that holds the end
\* (options.py:108-133, 365-378).
SaleIsTheSurge ==
    \A i \in Slots :
        /\ i \in SaleSlots /\ ~Surged(i) => scenario.campaign.until < At(i) + SlotLength
        /\ Surged(i) /\ i \notin SaleSlots => At(i) < scenario.campaign.from

\* What the code works out in two places about the times of the job and of the sale comes out the same (see the
\* three parts).
SecondOpinionsAgree == DeadlineAgrees /\ OverlapAgrees /\ SaleIsTheSurge
=============================================================================
