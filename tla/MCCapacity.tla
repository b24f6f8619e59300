----------------------------- MODULE MCCapacity -----------------------------
(* Three options over a horizon of three slots that ends at midnight.       *)
EXTENDS Capacity

CONSTANTS a, b, c, f, g, t, u

MCVcpu == [small |-> 2, medium |-> 4, large |-> 8]
MCRate == f :> (t :> 1 @@ u :> 1) @@ g :> (t :> 1 @@ u :> 0)
MCCpu == f :> 80 @@ g :> 60
MCWait == [servers \in 1..8, demand \in 0..1600 |-> IF 2 * demand > servers * 100 THEN 40 ELSE 0]
MCEffects ==
    [ix |-> {[measured |-> TRUE, equivalent |-> TRUE, storage |-> 1, multiplier |-> f :> 50 @@ g :> 120]},
     rw |-> {[measured |-> TRUE, equivalent |-> e, storage |-> 0, multiplier |-> f :> 50 @@ g :> 100] : e \in BOOLEAN}]

\* The reader option names a node the cluster may not have; 5 is before the horizon, 12 is 24:00.
MCWhole ==
    {[kind |-> "keep"],
     [kind |-> "scale_temporary", target |-> "large", nodes |-> {"writer", "reader"}, from |-> 7, until |-> 10],
     [kind |-> "resize_permanent", target |-> "small"],
     [kind |-> "optimize_index", candidate |-> "ix"],
     [kind |-> "optimize_rewrite", candidate |-> "rw"],
     [kind |-> "reschedule_batch", to |-> 5],
     [kind |-> "reschedule_batch", to |-> 12]}

\* What validation lets through or not, and _resolve raises for; 25 is no time of the day.
MCBroken ==
    {[kind |-> "scale_temporary", target |-> "large", nodes |-> {"writer"}, from |-> 7],
     [kind |-> "scale_temporary", target |-> "large", nodes |-> {"writer"}, from |-> 7, until |-> 25],
     [kind |-> "scale_season", target |-> "large"],
     [kind |-> "resize_permanent", target |-> "small", nodes |-> {}],
     [kind |-> "optimize_index"],
     [kind |-> "reschedule_batch", to |-> 25],
     [kind |-> "combined"]}
MCLeaves == MCWhole \cup MCBroken
MCCombined(lists) == {[kind |-> "combined", components |-> s] : s \in lists}

MCCards == {<<>>,
            <<[aws |-> FALSE, hourly |-> [small |-> 1, medium |-> 2]]>>,
            <<[aws |-> TRUE, hourly |-> [large |-> 7, medium |-> 3]],
              [aws |-> FALSE, hourly |-> [small |-> 1, medium |-> 2, large |-> 4]],
              [aws |-> TRUE, hourly |-> [large |-> 9]]>>}

\* Settings in which each of them meets the others: a job that runs into the sale, before the horizon, or not at all;
\* one that takes no time, one that is due at no time of the day, and logs with a decimal point.
MCJob == [planned |-> TRUE, start |-> 9, declared |-> 4, log |-> {4, 6}, decimal |-> FALSE, deadline |-> 3, cores |-> 1]
MCSetting == [batch |-> MCJob, readers |-> <<"medium">>, evaluated |-> "reader", cards |-> <<>>, failoverKnown |-> TRUE,
              campaign |-> [from |-> 7, until |-> 11, factor |-> 3, tenant |-> t]]
MCSettings ==
    {[MCSetting EXCEPT !.cards = k] : k \in MCCards}
    \cup
    {[MCSetting EXCEPT !.batch = [MCJob EXCEPT !.log = {4, l}, !.decimal = TRUE]] : l \in {5, 6}}
    \cup
    {[MCSetting EXCEPT !.batch = [MCJob EXCEPT !.log = {}, !.declared = 0]],
     [MCSetting EXCEPT !.batch = [MCJob EXCEPT !.deadline = 25]]}
    \cup
    {[MCSetting EXCEPT !.batch = [MCJob EXCEPT !.planned = p, !.start = 5, !.log = {}, !.cores = 3],
                       !.readers = <<>>, !.failoverKnown = FALSE,
                       !.campaign = [from |-> 4, until |-> 8, factor |-> 2, tenant |-> u]] : p \in BOOLEAN}

\* a is composed, b may be, and c closes cycles.
MCOptions ==
    {a :> x @@ b :> y @@ c :> z :
        x \in {[kind |-> "keep"]} \cup MCCombined({<<a, b>>, <<b, c>>, <<c, b>>}),
        y \in MCLeaves \cup MCCombined({<<c>>, <<c, c>>, <<c, b>>}),
        z \in MCLeaves \cup MCCombined({<<a>>, <<b, b>>})}

MCScenarios == {[options |-> o] @@ s : o \in MCOptions, s \in MCSettings}
=============================================================================
