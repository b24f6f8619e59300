------------------------------ MODULE MCReview ------------------------------
(* Small instances of Review: two roles, two options and four tool requests. *)
EXTENDS Review

CONSTANTS dbe, fin,                    \* two roles
          grow, keep,                  \* two options
          plan, load, broken, private  \* four requests

MCRoleOrder == <<dbe, fin>>

\* load's tool depends on the asker; private may be used by dbe only.
MCMayUse == [r \in {plan, load, broken, private} |->
                IF r = private THEN {dbe} ELSE {dbe, fin}]

Draft(p, c, q) == [position |-> p, challenges |-> c, requests |-> q]

\* Turns that take positions and challenge the other role or not, without
\* requests (a challenge to oneself is never open, so one set serves both).
DebateDrafts == {Draft(p, c, <<>>) : p \in {grow, keep}, c \in {{}, {dbe, fin}}}

\* Turns that ask for checks: shared ones, own ones, malformed ones, ones only
\* the other role may use, the same one twice, and more than the per-turn limit.
ToolDrafts == {Draft(keep, {}, q) :
    q \in {<<>>, <<plan>>, <<load, plan>>, <<private, broken>>,
           <<plan, plan>>, <<load, private, plan>>}}

=============================================================================
