---------------------------- MODULE ReviewProofs ----------------------------
(***************************************************************************)
(* What holds of Review for every choice of its constants: its types, what *)
(* a run spends and charges, the status machine it implements, its record, *)
(* the objections and early stops of a debate, the footing of its agents,  *)
(* and what becomes of their requests.  One invariant after the other,     *)
(* each resting on those before it.                                        *)
(***************************************************************************)
EXTENDS Review, WellFoundedInduction, FunctionTheorems, FiniteSetTheorems, TLAPS

\* How far the loops have come, for each place in run(): the roles of the round
\* speak in order, one turn each, and are collected when all have spoken.
Shape ==
    /\ pc \in {"guard", "calling"} => /\ who \in 1..Len(RoleOrder)
                                      /\ Len(turns) = prior + who - 1
    /\ pc = "collect" => Len(turns) = prior + Len(RoleOrder)
    /\ pc = "calling" => call.attempt \in {1, 2}

TypeInv == TypeOK /\ Shape

LEMMA RoleCount == Len(RoleOrder) \in Nat /\ Len(RoleOrder) >= 1
  BY RolesAssumption

LEMMA CostsNat ==
    ASSUME call \in ProviderCallType, NEW cost \in AttemptCosts
    PROVE  /\ cost \in Nat
           /\ cost <= call.estimate + Excess + Notice
           /\ call.attempt = 1 => cost <= call.estimate + Excess
  BY SpendAssumption DEF AttemptCosts, ProviderCallType

LEMMA InitTypeInv == Init => TypeInv
  BY RoleCount, LimitsAssumption DEF Init, TypeInv, TypeOK, Shape, NoCall,
     ProviderCallType

LEMMA ValidateTypeInv == TypeInv /\ Validate => TypeInv'
  BY DEF TypeInv, TypeOK, Shape, Validate, turnVars, requestVars, toolVars,
     spendVars

LEMMA BeginRoundTypeInv == TypeInv /\ BeginRound => TypeInv'
  <1>1. SUFFICES ASSUME TypeInv, BeginRound PROVE TypeInv'
    OBVIOUS
  <1>2. Len(turns) \in Nat
    BY <1>1 DEF TypeInv, TypeOK
  <1>3. TypeOK'
    BY <1>1, <1>2, RoleCount DEF TypeInv, TypeOK, BeginRound, requestVars,
       toolVars, spendVars
  <1>4. Shape'
    BY <1>1, <1>2, RoleCount DEF TypeInv, Shape, BeginRound
  <1>5. QED
    BY <1>3, <1>4 DEF TypeInv

LEMMA StartTurnTypeInv == TypeInv /\ StartTurn => TypeInv'
  <1>1. ASSUME NEW e \in Estimates PROVE e \in Nat
    BY SpendAssumption
  <1>2. QED
    BY <1>1 DEF TypeInv, TypeOK, Shape, StartTurn, ProviderCallType,
       requestVars, toolVars, spendVars

LEMMA RetryTruncatedTypeInv == TypeInv /\ RetryTruncated => TypeInv'
  <1>1. SUFFICES ASSUME TypeInv, RetryTruncated PROVE TypeInv'
    OBVIOUS
  <1>2. PICK cost \in AttemptCosts :
            /\ call' = [estimate |-> call.estimate, attempt |-> 2,
                        charged |-> call.charged + cost, seen |-> call.seen]
            /\ told' = told + cost
    BY <1>1 DEF RetryTruncated, Tell
  <1>3. cost \in Nat
    BY <1>1, <1>2, CostsNat DEF TypeInv, TypeOK
  <1>4. call \in ProviderCallType /\ call.charged + cost \in Nat
    BY <1>1, <1>3 DEF TypeInv, TypeOK, ProviderCallType
  <1>5. call' \in ProviderCallType /\ call'.attempt = 2
    BY <1>2, <1>4 DEF ProviderCallType
  <1>6. TypeOK'
    <2>1. told' \in Nat
      <3>1. told' = told + cost
        BY <1>2
      <3>2. told \in Nat
        BY <1>1 DEF TypeInv, TypeOK
      <3>3. QED
        BY <1>3, <3>1, <3>2
    <2>2. QED
      BY <1>1, <1>5, <2>1 DEF TypeInv, TypeOK, RetryTruncated, lifeVars,
         requestVars, toolVars
  <1>7. Shape'
    BY <1>1, <1>5 DEF TypeInv, Shape, RetryTruncated, lifeVars
  <1>8. QED
    BY <1>6, <1>7 DEF TypeInv

LEMMA TurnIsTyped ==
    ASSUME TypeInv, pc = "calling", NEW draft \in Drafts
    PROVE  Turn(draft) \in TurnType
  <1>1. RoleOrder[who] \in Roles
    BY RolesAssumption DEF TypeInv, Shape
  <1>2. draft \in DraftType
    BY DraftsAssumption
  <1>3. /\ draft.position \in Positions /\ draft.challenges \in SUBSET Roles
        /\ draft.requests \in Seq(Requests)
    BY <1>2 DEF DraftType
  <1>4. call.seen \in Nat /\ rnd \in Nat /\ prior \in Nat
    BY DEF TypeInv, TypeOK, ProviderCallType
  <1>5. QED
    BY <1>1, <1>3, <1>4 DEF Turn, TurnType

LEMMA AcceptTurnTypeInv == TypeInv /\ AcceptTurn => TypeInv'
  <1>1. SUFFICES ASSUME TypeInv, AcceptTurn PROVE TypeInv'
    OBVIOUS
  <1>2. PICK cost \in AttemptCosts, draft \in Drafts :
            /\ turns' = Append(turns, Turn(draft))
            /\ spend' = spend + call.charged + cost
            /\ told' = told + cost
    BY <1>1 DEF AcceptTurn, Tell
  <1>3. pc = "calling" /\ who \in 1..Len(RoleOrder) /\ RoleOrder[who] \in Roles
    BY <1>1, RolesAssumption DEF AcceptTurn, TypeInv, Shape
  <1>4. cost \in Nat
    BY <1>1, <1>2, CostsNat DEF TypeInv, TypeOK
  <1>5. Turn(draft) \in TurnType
    BY <1>1, <1>3, TurnIsTyped
  <1>6. turns' \in Seq(TurnType) /\ Len(turns') = Len(turns) + 1
    BY <1>1, <1>2, <1>5 DEF TypeInv, TypeOK
  <1>7. call.charged \in Nat /\ NoCall \in ProviderCallType
    BY <1>1 DEF TypeInv, TypeOK, ProviderCallType, NoCall
  <1>8. TypeOK'
    <2>1. pc' \in {"collect", "guard"} /\ roundsCompleted' \in Nat
      BY <1>1 DEF AcceptTurn, TypeInv, TypeOK
    <2>2. spend' \in Nat /\ told' \in Nat
      <3>1. spend \in Nat /\ told \in Nat
        BY <1>1 DEF TypeInv, TypeOK
      <3>2. /\ spend' = spend + call.charged + cost
            /\ told' = told + cost
        BY <1>2
      <3>3. QED
        BY <1>4, <1>7, <3>1, <3>2
    <2>3. who' \in 1..(Len(RoleOrder) + 1) /\ prior' \in 0..Len(turns')
      BY <1>1, <1>3, <1>6, RoleCount DEF AcceptTurn, TypeInv, TypeOK
    <2>4. QED
      BY <1>1, <1>6, <1>7, <2>1, <2>2, <2>3 DEF AcceptTurn, TypeInv, TypeOK,
         requestVars, toolVars
  <1>9. Shape'
    <2>1. CASE who = Len(RoleOrder)
      BY <1>1, <1>3, <1>6, <2>1, RoleCount DEF AcceptTurn, TypeInv, TypeOK, Shape
    <2>2. CASE who # Len(RoleOrder)
      BY <1>1, <1>3, <1>6, <2>2, RoleCount DEF AcceptTurn, TypeInv, TypeOK, Shape
    <2>3. QED
      BY <2>1, <2>2
  <1>10. QED
    BY <1>8, <1>9 DEF TypeInv

\* Steps after which run() is over, or that leave the turns alone.
LEMMA FinishTypeInv ==
    TypeInv /\ (LoopExhausted \/ StopOnBudget) => TypeInv'
  BY DEF TypeInv, TypeOK, Shape, LoopExhausted, StopOnBudget, Finish, turnVars,
     requestVars, toolVars, spendVars

LEMMA FailTurnTypeInv == TypeInv /\ FailTurn => TypeInv'
  <1>1. SUFFICES ASSUME TypeInv, FailTurn PROVE TypeInv'
    OBVIOUS
  <1>2. PICK cost \in AttemptCosts :
            /\ spend' = spend + call.charged + cost
            /\ told' = told + cost
    BY <1>1 DEF FailTurn, ChargeFailure, Tell
  <1>3. cost \in Nat
    BY <1>1, <1>2, CostsNat DEF TypeInv, TypeOK
  <1>4. call.charged \in Nat /\ NoCall \in ProviderCallType
    BY <1>1 DEF TypeInv, TypeOK, ProviderCallType, NoCall
  <1>5. spend' \in Nat /\ told' \in Nat
    <2>1. spend \in Nat /\ told \in Nat
      BY <1>1 DEF TypeInv, TypeOK
    <2>2. QED
      BY <1>2, <1>3, <1>4, <2>1
  <1>6. status' = "failed" /\ pc' \in {"returned", "raised"} /\ call' = NoCall
    BY <1>1 DEF FailTurn, Finish
  <1>7. TypeOK'
    BY <1>1, <1>4, <1>5, <1>6 DEF TypeInv, TypeOK, FailTurn, requestVars,
       toolVars
  <1>8. Shape'
    BY <1>6 DEF Shape
  <1>9. QED
    BY <1>7, <1>8 DEF TypeInv

LEMMA RaiseInCallTypeInv == TypeInv /\ RaiseInCall => TypeInv'
  <1>1. SUFFICES ASSUME TypeInv, RaiseInCall PROVE TypeInv'
    OBVIOUS
  <1>2. told' \in Nat
    <2>1. PICK cost \in AttemptCosts : told' = told + cost
      BY <1>1 DEF RaiseInCall, Tell
    <2>2. cost \in Nat /\ told \in Nat
      BY <1>1, CostsNat DEF TypeInv, TypeOK
    <2>3. QED
      BY <2>1, <2>2
  <1>3. TypeOK'
    BY <1>1, <1>2 DEF TypeInv, TypeOK, RaiseInCall, turnVars, requestVars,
       toolVars
  <1>4. Shape'
    BY <1>1 DEF Shape, RaiseInCall
  <1>5. QED
    BY <1>3, <1>4 DEF TypeInv

LEMMA LeastOfTwo ==
    ASSUME NEW a \in Nat, NEW b \in Nat
    PROVE  /\ Least({a, b}) \in Nat
           /\ Least({a, b}) <= a
           /\ Least({a, b}) <= b
  <1>1. \E x \in {a, b} : \A y \in {a, b} : x <= y
    <2>1. CASE a <= b
      BY <2>1
    <2>2. CASE b <= a
      BY <2>2
    <2>3. QED
      BY <2>1, <2>2
  <1>2. Least({a, b}) \in {a, b} /\ \A y \in {a, b} : Least({a, b}) <= y
    BY <1>1 DEF Least
  <1>3. QED
    BY <1>2

LEMMA FunctionIsSeq ==
    ASSUME NEW S, NEW n \in Nat, NEW f \in [1..n -> S]
    PROVE  f \in Seq(S) /\ Len(f) = n
  OBVIOUS

\* Nothing that was in s is lost or moved in t.
Extends(s, t) == \A i \in DOMAIN s : i \in DOMAIN t /\ t[i] = s[i]

LEMMA Concatenated ==
    ASSUME NEW S, NEW s \in Seq(S), NEW t \in Seq(S)
    PROVE  /\ s \o t \in Seq(S) /\ Extends(s, s \o t)
           /\ \A i \in DOMAIN (s \o t) :
                  i \in DOMAIN s \/ \E k \in DOMAIN t : (s \o t)[i] = t[k]
           /\ \A k \in DOMAIN t : \E i \in DOMAIN (s \o t) : (s \o t)[i] = t[k]
  <1>1. /\ s \o t \in Seq(S) /\ Len(s) \in Nat /\ Len(t) \in Nat
        /\ Len(s \o t) = Len(s) + Len(t)
        /\ DOMAIN s = 1..Len(s) /\ DOMAIN t = 1..Len(t)
        /\ DOMAIN (s \o t) = 1..(Len(s) + Len(t))
    OBVIOUS
  <1>2. \A i \in DOMAIN s : i \in DOMAIN (s \o t) /\ (s \o t)[i] = s[i]
    BY <1>1
  <1>3. \A k \in DOMAIN t : Len(s) + k \in DOMAIN (s \o t) /\ (s \o t)[Len(s) + k] = t[k]
    BY <1>1
  <1>4. \A i \in DOMAIN (s \o t) : i \in DOMAIN s \/ \E k \in DOMAIN t : (s \o t)[i] = t[k]
    <2>1. SUFFICES ASSUME NEW i \in DOMAIN (s \o t), i \notin DOMAIN s
                   PROVE  \E k \in DOMAIN t : (s \o t)[i] = t[k]
      OBVIOUS
    <2>2. i - Len(s) \in DOMAIN t /\ Len(s) + (i - Len(s)) = i
      BY <1>1, <2>1
    <2>3. QED
      BY <1>3, <2>2
  <1>5. QED
    BY <1>1, <1>2, <1>3, <1>4 DEF Extends

LEMMA OneAppended ==
    ASSUME NEW S, NEW s \in Seq(S), NEW x \in S, NEW n, n = Len(s)
    PROVE  /\ n \in Nat /\ DOMAIN s = 1..n
           /\ Append(s, x) \in Seq(S) /\ Len(Append(s, x)) = n + 1
           /\ DOMAIN Append(s, x) = 1..(n + 1) /\ Append(s, x)[n + 1] = x
           /\ \A i \in 1..n : Append(s, x)[i] = s[i]
  OBVIOUS

\* Each request of the turn is kept for execution or recorded as skipped.
LEMMA CollectAppends ==
    ASSUME TypeInv, CollectRequests
    PROVE  LET turn == turns[prior + collected + 1]
           IN  \E asks \in Seq(AskType), skips \in Seq(ToolCallType) :
                   /\ requests' = requests \o asks /\ toolCalls' = toolCalls \o skips
                   /\ \A c \in DOMAIN skips :
                          /\ skips[c].status = "skipped_budget" /\ skips[c].item = 0
                          /\ skips[c].round = rnd /\ skips[c].by = {turn.role}
                   /\ \A k \in DOMAIN turn.requests :
                          \/ \E c \in DOMAIN skips : skips[c].request = turn.requests[k]
                          \/ \E a \in DOMAIN asks :
                                 asks[a] = [role |-> turn.role, request |-> turn.requests[k]]
  <1> DEFINE turn == turns[prior + collected + 1]
             kept == Least({MaxToolCallsPerTurn, Len(turn.requests)})
             asks == [i \in 1..kept |-> [role |-> turn.role,
                                         request |-> turn.requests[i]]]
             skips == [i \in 1..(Len(turn.requests) - kept) |->
                         Record({turn.role}, turn.requests[kept + i],
                                "skipped_budget", 0)]
  <1>1. turn \in TurnType
    BY DEF CollectRequests, TypeInv, TypeOK, Shape
  <1>2. turn.role \in Roles /\ turn.requests \in Seq(Requests)
    BY <1>1 DEF TurnType
  <1>3. kept \in Nat /\ kept <= Len(turn.requests)
    BY <1>2, LimitsAssumption, LeastOfTwo
  <1>4. kept + (Len(turn.requests) - kept) = Len(turn.requests)
        /\ Len(turn.requests) - kept \in Nat
    BY <1>2, <1>3
  <1>5. \A i \in 1..Len(turn.requests) : turn.requests[i] \in Requests
    BY <1>2
  <1>6. requests' = requests \o asks /\ toolCalls' = toolCalls \o skips
    BY DEF CollectRequests
  <1> HIDE DEF turn, kept
  <1>7. asks \in Seq(AskType) /\ DOMAIN asks = 1..kept
    <2>1. asks \in [1..kept -> AskType]
      BY <1>2, <1>3, <1>5 DEF AskType
    <2>2. QED
      BY <1>3, <2>1, FunctionIsSeq
  <1>8. skips \in Seq(ToolCallType) /\ DOMAIN skips = 1..(Len(turn.requests) - kept)
    <2>1. rnd \in Nat
      BY DEF TypeInv, TypeOK
    <2>2. ASSUME NEW i \in 1..(Len(turn.requests) - kept)
          PROVE  Record({turn.role}, turn.requests[kept + i],
                        "skipped_budget", 0) \in ToolCallType
      <3>1. kept + i \in 1..Len(turn.requests)
        BY <1>2, <1>3, <1>4
      <3>2. QED
        BY <1>2, <1>5, <2>1, <3>1 DEF Record, ToolCallType, CallOutcomes,
           SkippedStatuses
    <2>3. skips \in [1..(Len(turn.requests) - kept) -> ToolCallType]
      BY <2>2
    <2>4. QED
      BY <1>4, <2>3, FunctionIsSeq
  <1>9. \A c \in DOMAIN skips :
            /\ skips[c].status = "skipped_budget" /\ skips[c].item = 0
            /\ skips[c].round = rnd /\ skips[c].by = {turn.role}
    BY <1>8 DEF Record
  <1>10. /\ \A i \in 1..kept : asks[i] = [role |-> turn.role, request |-> turn.requests[i]]
         /\ \A i \in 1..(Len(turn.requests) - kept) :
                skips[i].request = turn.requests[kept + i]
    BY DEF Record
  <1> HIDE DEF asks, skips
  <1>11. ASSUME NEW k \in DOMAIN turn.requests
         PROVE  \/ \E c \in DOMAIN skips : skips[c].request = turn.requests[k]
                \/ \E a \in DOMAIN asks :
                       asks[a] = [role |-> turn.role, request |-> turn.requests[k]]
    <2>1. k \in 1..Len(turn.requests)
      BY <1>2
    <2>2. CASE k <= kept
      <3>1. k \in 1..kept
        BY <1>3, <2>1, <2>2
      <3>2. QED
        BY <1>7, <1>10, <3>1
    <2>3. CASE k > kept
      <3>1. k - kept \in 1..(Len(turn.requests) - kept) /\ kept + (k - kept) = k
        BY <1>2, <1>3, <2>1, <2>3
      <3>2. skips[k - kept].request = turn.requests[k]
        BY <1>10, <3>1
      <3>3. QED
        BY <1>8, <3>1, <3>2
    <2>4. QED
      BY <1>3, <2>1, <2>2, <2>3
  <1>12. QED
    BY <1>6, <1>7, <1>8, <1>9, <1>11 DEF turn

LEMMA CollectRequestsTypeInv == TypeInv /\ CollectRequests => TypeInv'
  <1>1. SUFFICES ASSUME TypeInv, CollectRequests PROVE TypeInv'
    OBVIOUS
  <1>2. PICK asks \in Seq(AskType), skips \in Seq(ToolCallType) :
            requests' = requests \o asks /\ toolCalls' = toolCalls \o skips
    BY <1>1, CollectAppends
  <1>3. /\ requests' \in Seq(AskType)
        /\ toolCalls' \in Seq(ToolCallType)
        /\ served' \subseteq DOMAIN requests'
    <2>1. /\ requests \in Seq(AskType) /\ toolCalls \in Seq(ToolCallType)
          /\ served' = served /\ served \subseteq DOMAIN requests
      BY <1>1 DEF CollectRequests, TypeInv, TypeOK
    <2>2. requests' \in Seq(AskType) /\ Extends(requests, requests')
      BY <1>2, <2>1, Concatenated
    <2>3. QED
      BY <1>2, <2>1, <2>2, Concatenated DEF Extends
  <1>4. TypeOK'
    <2>1. collected' \in 0..Len(RoleOrder)
      BY <1>1, RoleCount DEF CollectRequests, TypeInv, TypeOK
    <2>2. UNCHANGED <<status, pc, maxRounds, rnd, roundsCompleted, who, prior,
                      turns, call, evidence, executed, spendVars>>
      BY <1>1 DEF CollectRequests, lifeVars, turnVars, spendVars
    <2>3. QED
      BY <1>1, <1>3, <2>1, <2>2 DEF TypeInv, TypeOK, spendVars
  <1>5. Shape'
    BY <1>1 DEF CollectRequests, TypeInv, Shape, lifeVars, turnVars
  <1>6. QED
    BY <1>4, <1>5 DEF TypeInv

\* What was kept for execution is recorded as skipped when the run ends.
LEMMA ConcludeAppends ==
    ASSUME TypeInv, Conclude
    PROVE  \E skips \in Seq(ToolCallType) :
               /\ toolCalls' = toolCalls \o skips
               /\ \A c \in DOMAIN skips :
                      /\ skips[c].status = "skipped_final_round" /\ skips[c].item = 0
                      /\ skips[c].round = rnd
               /\ \A a \in DOMAIN requests :
                      \E c \in DOMAIN skips : /\ skips[c].request = requests[a].request
                                              /\ skips[c].by = {requests[a].role}
  <1> DEFINE skips == [i \in 1..Len(requests) |->
                         Record({requests[i].role}, requests[i].request,
                                "skipped_final_round", 0)]
  <1>1. rnd \in Nat /\ requests \in Seq(AskType) /\ Len(requests) \in Nat
        /\ DOMAIN requests = 1..Len(requests)
    BY DEF TypeInv, TypeOK
  <1>2. skips \in Seq(ToolCallType)
    <2>1. ASSUME NEW i \in 1..Len(requests)
          PROVE  Record({requests[i].role}, requests[i].request,
                        "skipped_final_round", 0) \in ToolCallType
      <3>1. requests[i] \in AskType
        BY <1>1
      <3>2. QED
        BY <1>1, <3>1 DEF Record, AskType, ToolCallType, CallOutcomes,
           SkippedStatuses
    <2>2. skips \in [1..Len(requests) -> ToolCallType]
      BY <2>1
    <2>3. QED
      BY <1>1, <2>2, FunctionIsSeq
  <1>3. toolCalls' = toolCalls \o skips
    BY DEF Conclude
  <1>4. \A c \in 1..Len(requests) :
            /\ skips[c].status = "skipped_final_round" /\ skips[c].item = 0
            /\ skips[c].round = rnd /\ skips[c].request = requests[c].request
            /\ skips[c].by = {requests[c].role}
    BY DEF Record
  <1>5. DOMAIN skips = DOMAIN requests
    BY <1>1
  <1> HIDE DEF skips
  <1>6. QED
    BY <1>1, <1>2, <1>3, <1>4, <1>5

LEMMA ConcludeTypeInv == TypeInv /\ Conclude => TypeInv'
  <1>1. SUFFICES ASSUME TypeInv, Conclude PROVE TypeInv'
    OBVIOUS
  <1>2. PICK skips \in Seq(ToolCallType) : toolCalls' = toolCalls \o skips
    BY <1>1, ConcludeAppends
  <1>3. toolCalls' \in Seq(ToolCallType)
    BY <1>1, <1>2, Concatenated DEF TypeInv, TypeOK
  <1>4. status' = "concluded" /\ pc' \in {"returned", "raised"}
    BY <1>1 DEF Conclude, Finish
  <1>5. TypeOK'
    <2>1. UNCHANGED <<maxRounds, rnd, roundsCompleted, who, prior, turns, call,
                      collected, requests, served, evidence, executed,
                      spendVars>>
      BY <1>1 DEF Conclude, turnVars, requestVars, spendVars
    <2>2. QED
      BY <1>1, <1>3, <1>4, <2>1 DEF TypeInv, TypeOK, spendVars
  <1>6. Shape'
    BY <1>4 DEF Shape
  <1>7. QED
    BY <1>5, <1>6 DEF TypeInv

LEMMA BeginToolsTypeInv == TypeInv /\ BeginTools => TypeInv'
  BY DEF TypeInv, TypeOK, Shape, BeginTools, turnVars, requestVars, toolVars,
     spendVars

\* CHOOSE finds the least element of a non-empty set of naturals.
LEMMA LeastIsMember ==
    ASSUME NEW S \in SUBSET Nat, S # {}
    PROVE  Least(S) \in S /\ \A x \in S : Least(S) <= x
  <1> DEFINE Less == {p \in Nat \X Nat : p[1] < p[2]}
  <1>1. IsWellFoundedOn(Less, Nat)
    BY NatLessThanWellFounded DEF OpToRel
  <1>2. \E x \in S : \A y \in S : <<y, x>> \notin Less
    <2> HIDE DEF Less
    <2> QED
      BY <1>1, WFMin
  <1>3. ASSUME NEW x \in S, NEW y \in S, <<y, x>> \notin Less PROVE x <= y
    <2>1. x \in Nat /\ y \in Nat /\ <<y, x>>[1] = y /\ <<y, x>>[2] = x
      OBVIOUS
    <2>2. ~(y < x)
      BY <1>3, <2>1
    <2>3. QED
      BY <2>1, <2>2
  <1>4. QED
    BY <1>2, <1>3 DEF Least

\* The group to handle next: requests that wait, of roles of this run.
LEMMA GroupType ==
    ASSUME TypeInv, Waiting # {}
    PROVE  /\ Group \subseteq DOMAIN requests
           /\ GroupRoles \subseteq Roles
           /\ GroupRequest \in Requests
  <1>1. requests \in Seq(AskType)
    BY DEF TypeInv, TypeOK
  <1>2. DOMAIN requests \subseteq Nat /\ \A i \in DOMAIN requests : requests[i] \in AskType
    BY <1>1
  <1>3. Waiting \in SUBSET Nat /\ Waiting \subseteq DOMAIN requests
    BY <1>2 DEF Waiting
  <1>4. Least(Waiting) \in DOMAIN requests
    BY <1>3, LeastIsMember
  <1>5. Group \subseteq DOMAIN requests
    BY <1>3 DEF Group
  <1>6. GroupRequest \in Requests
    BY <1>2, <1>4 DEF GroupRequest, AskType
  <1>7. GroupRoles \subseteq Roles
    BY <1>2, <1>5 DEF GroupRoles, AskType
  <1>8. QED
    BY <1>5, <1>6, <1>7

\* A tool call is recorded in the round under way, for the group's request and roles.
LEMMA RecordIsTyped ==
    ASSUME TypeInv, Waiting # {}
    PROVE  /\ Record(GroupRoles, GroupRequest, WithoutResult, 0) \in ToolCallType
           /\ Record(GroupRoles, GroupRequest, "ok", Len(evidence) + 1) \in ToolCallType
  <1>1. GroupRoles \subseteq Roles /\ GroupRequest \in Requests
    BY GroupType
  <1>2. WithoutResult \in CallOutcomes
    BY DEF WithoutResult, Refusal, CallOutcomes, SkippedStatuses
  <1>3. rnd \in Nat /\ Len(evidence) + 1 \in Nat
    BY DEF TypeInv, TypeOK
  <1>4. QED
    BY <1>1, <1>2, <1>3 DEF Record, ToolCallType, CallOutcomes

LEMMA NoResultTypeInv == TypeInv /\ NoResult => TypeInv'
  <1>1. SUFFICES ASSUME TypeInv, NoResult PROVE TypeInv'
    OBVIOUS
  <1> DEFINE record == Record(GroupRoles, GroupRequest, WithoutResult, 0)
  <1>2. Waiting # {} /\ toolCalls' = Append(toolCalls, record)
        /\ served' = served \cup Group
    BY <1>1 DEF NoResult
  <1>3. Group \subseteq DOMAIN requests /\ GroupRoles \subseteq Roles
        /\ GroupRequest \in Requests
    BY <1>1, <1>2, GroupType
  <1>4. record \in ToolCallType
    BY <1>1, <1>2, RecordIsTyped
  <1> HIDE DEF record
  <1>5. toolCalls' \in Seq(ToolCallType)
    BY <1>1, <1>2, <1>4 DEF TypeInv, TypeOK
  <1>6. UNCHANGED <<status, pc, maxRounds, rnd, roundsCompleted, who, prior,
                    turns, call, collected, requests, evidence, executed,
                    spendVars>>
    BY <1>1 DEF NoResult, lifeVars, turnVars, spendVars
  <1>7. TypeOK'
    BY <1>1, <1>2, <1>3, <1>5, <1>6 DEF TypeInv, TypeOK, spendVars
  <1>8. Shape'
    BY <1>1, <1>6 DEF TypeInv, Shape
  <1>9. QED
    BY <1>7, <1>8 DEF TypeInv

LEMMA ExecuteToolTypeInv == TypeInv /\ ExecuteTool => TypeInv'
  <1>1. SUFFICES ASSUME TypeInv, ExecuteTool PROVE TypeInv'
    OBVIOUS
  <1> DEFINE record == Record(GroupRoles, GroupRequest, "ok", Len(evidence) + 1)
  <1>2. Waiting # {} /\ toolCalls' = Append(toolCalls, record)
        /\ evidence' = Append(evidence, Len(toolCalls) + 1)
        /\ executed' = executed + 1 /\ served' = served \cup Group
    BY <1>1 DEF ExecuteTool
  <1>3. Group \subseteq DOMAIN requests /\ GroupRoles \subseteq Roles
        /\ GroupRequest \in Requests
    BY <1>1, <1>2, GroupType
  <1>4. evidence \in Seq(Nat) /\ Len(evidence) + 1 \in Nat
        /\ Len(toolCalls) + 1 \in Nat
    BY <1>1 DEF TypeInv, TypeOK
  <1>5. record \in ToolCallType
    BY <1>1, <1>2, RecordIsTyped
  <1> HIDE DEF record
  <1>6. toolCalls' \in Seq(ToolCallType) /\ evidence' \in Seq(Nat)
    BY <1>1, <1>2, <1>4, <1>5 DEF TypeInv, TypeOK
  <1>7. UNCHANGED <<status, pc, maxRounds, rnd, roundsCompleted, who, prior,
                    turns, call, collected, requests, spendVars>>
    BY <1>1 DEF ExecuteTool, lifeVars, turnVars, spendVars
  <1>8. TypeOK'
    BY <1>1, <1>2, <1>3, <1>6, <1>7 DEF TypeInv, TypeOK, spendVars
  <1>9. Shape'
    BY <1>1, <1>7 DEF TypeInv, Shape
  <1>10. QED
    BY <1>8, <1>9 DEF TypeInv

LEMMA LeaveToolsTypeInv == TypeInv /\ (RaiseInTool \/ EndTools) => TypeInv'
  <1>1. SUFFICES ASSUME TypeInv, RaiseInTool \/ EndTools PROVE TypeInv'
    OBVIOUS
  <1>2. CASE RaiseInTool
    BY <1>1, <1>2 DEF TypeInv, TypeOK, Shape, RaiseInTool, turnVars,
       requestVars, toolVars, spendVars
  <1>3. CASE EndTools
    BY <1>1, <1>3, RoleCount DEF TypeInv, TypeOK, Shape, EndTools, turnVars,
       toolVars, spendVars
  <1>4. QED
    BY <1>1, <1>2, <1>3

LEMMA NextTypeInv == TypeInv /\ [Next]_vars => TypeInv'
  <1>1. ASSUME TypeInv, UNCHANGED vars PROVE TypeInv'
    BY <1>1 DEF TypeInv, TypeOK, Shape, vars, lifeVars, turnVars, requestVars,
       toolVars, spendVars
  <1>2. QED
    BY <1>1, ValidateTypeInv, BeginRoundTypeInv, StartTurnTypeInv,
       RetryTruncatedTypeInv, AcceptTurnTypeInv, FinishTypeInv, FailTurnTypeInv,
       RaiseInCallTypeInv, CollectRequestsTypeInv, ConcludeTypeInv,
       BeginToolsTypeInv, NoResultTypeInv, ExecuteToolTypeInv, LeaveToolsTypeInv
       DEF Next

LEMMA AlwaysTypeInv == Spec => []TypeInv
  BY InitTypeInv, NextTypeInv, PTL DEF Spec

\* Every reachable state of a run has the shapes the code gives it, whatever
\* the roles, requests, limits and prices (orchestrator.py:70-198).
THEOREM TypeCorrect == Spec => []TypeOK
  <1>1. TypeInv => TypeOK
    BY DEF TypeInv
  <1>2. QED
    BY <1>1, AlwaysTypeInv, PTL
-----------------------------------------------------------------------------
(***************************************************************************)
(* The limit.  The guard runs before a turn's first attempt, so while a    *)
(* call is under way the estimate still fits under the limit; what the     *)
(* attempts add to that is bounded by the estimate itself.                 *)
(***************************************************************************)
GuardHeld ==
    pc = "calling" => /\ spend + call.estimate <= MaxUsd
                      /\ call.estimate <= MaxEstimate
                      /\ call.attempt = 1 => call.charged = 0
                      /\ call.charged <= call.estimate + Excess

SpendInv == TypeInv /\ SpendBound /\ GuardHeld

\* Settling a call, whether its turn is recorded or failed, stays in the bound.
LEMMA SettledCallInBound ==
    ASSUME SpendInv, pc = "calling", NEW cost \in AttemptCosts
    PROVE  spend + call.charged + cost <= MaxUsd + MaxEstimate + 2 * Excess + Notice
  <1>1. call \in ProviderCallType /\ spend \in Nat
    BY DEF SpendInv, TypeInv, TypeOK
  <1>2. call.estimate \in Nat /\ call.charged \in Nat
    BY <1>1 DEF ProviderCallType
  <1>3. cost \in Nat /\ cost <= call.estimate + Excess + Notice
    BY <1>1, CostsNat
  <1>4. /\ spend + call.estimate <= MaxUsd
        /\ call.estimate <= MaxEstimate
        /\ call.charged <= call.estimate + Excess
    BY DEF SpendInv, GuardHeld
  <1>5. QED
    BY <1>1, <1>2, <1>3, <1>4, SpendAssumption

LEMMA StartTurnSpend == SpendInv /\ StartTurn => SpendBound' /\ GuardHeld'
  <1>1. SUFFICES ASSUME SpendInv, StartTurn PROVE SpendBound' /\ GuardHeld'
    OBVIOUS
  <1>2. PICK e \in Estimates :
            /\ ~OverLimit(e)
            /\ call' = [estimate |-> e, attempt |-> 1, charged |-> 0,
                        seen |-> Len(evidence)]
    BY <1>1 DEF StartTurn
  <1>3. e \in Nat /\ e <= MaxEstimate /\ spend \in Nat /\ spend' = spend
    BY <1>1, SpendAssumption DEF StartTurn, SpendInv, TypeInv, TypeOK, spendVars
  <1>4. spend + e <= MaxUsd
    BY <1>2, <1>3, SpendAssumption DEF OverLimit
  <1>5. call'.estimate = e /\ call'.charged = 0
    BY <1>2
  <1>6. QED
    BY <1>1, <1>3, <1>4, <1>5, SpendAssumption DEF SpendInv, SpendBound, GuardHeld

LEMMA RetryTruncatedSpend ==
    SpendInv /\ RetryTruncated => SpendBound' /\ GuardHeld'
  <1>1. SUFFICES ASSUME SpendInv, RetryTruncated PROVE SpendBound' /\ GuardHeld'
    OBVIOUS
  <1>2. PICK cost \in AttemptCosts :
            call' = [estimate |-> call.estimate, attempt |-> 2,
                     charged |-> call.charged + cost, seen |-> call.seen]
    BY <1>1 DEF RetryTruncated
  <1>3. pc = "calling" /\ call.attempt = 1 /\ UNCHANGED <<pc, spend>>
    BY <1>1 DEF RetryTruncated, lifeVars
  <1>4. call.charged = 0
    BY <1>1, <1>3 DEF SpendInv, GuardHeld
  <1>5. cost \in Nat /\ cost <= call.estimate + Excess
    BY <1>1, <1>3, CostsNat DEF SpendInv, TypeInv, TypeOK
  <1>6. /\ call'.estimate = call.estimate
        /\ call'.attempt = 2
        /\ call'.charged = cost
    BY <1>2, <1>4, <1>5
  <1>7. QED
    BY <1>1, <1>3, <1>5, <1>6 DEF SpendInv, SpendBound, GuardHeld

LEMMA SettleSpend ==
    SpendInv /\ (AcceptTurn \/ FailTurn) => SpendBound' /\ GuardHeld'
  <1>1. SUFFICES ASSUME SpendInv, AcceptTurn \/ FailTurn
                 PROVE  SpendBound' /\ GuardHeld'
    OBVIOUS
  <1>2. pc = "calling" /\ pc' # "calling"
    BY <1>1 DEF AcceptTurn, FailTurn, Finish
  <1>3. \E cost \in AttemptCosts : spend' = spend + call.charged + cost
    BY <1>1 DEF AcceptTurn, FailTurn, ChargeFailure
  <1>4. QED
    BY <1>1, <1>2, <1>3, SettledCallInBound DEF SpendBound, GuardHeld

\* No other step changes the spend or makes a call.
LEMMA OtherStepsSpend ==
    ASSUME SpendInv, UNCHANGED spend, pc' # "calling"
    PROVE  SpendBound' /\ GuardHeld'
  BY DEF SpendInv, SpendBound, GuardHeld

LEMMA NextSpendInv == SpendInv /\ [Next]_vars => SpendInv'
  <1>1. SUFFICES ASSUME SpendInv, [Next]_vars PROVE SpendBound' /\ GuardHeld'
    BY NextTypeInv DEF SpendInv
  <1>2. CASE UNCHANGED vars
    BY <1>1, <1>2 DEF SpendInv, SpendBound, GuardHeld, vars, lifeVars, turnVars,
       spendVars
  <1>3. CASE Validate \/ BeginRound \/ LoopExhausted \/ StopOnBudget \/ RaiseInCall
             \/ Conclude \/ BeginTools \/ RaiseInTool \/ EndTools
    <2>1. UNCHANGED spend /\ pc' # "calling"
      BY <1>3 DEF Validate, BeginRound, LoopExhausted, StopOnBudget, RaiseInCall,
         Conclude, BeginTools, RaiseInTool, EndTools, Finish, spendVars
    <2>2. QED
      BY <1>1, <2>1, OtherStepsSpend
  <1>4. CASE CollectRequests \/ NoResult \/ ExecuteTool
    <2>1. UNCHANGED spend /\ pc' # "calling"
      BY <1>4 DEF CollectRequests, NoResult, ExecuteTool, lifeVars, spendVars
    <2>2. QED
      BY <1>1, <2>1, OtherStepsSpend
  <1>5. QED
    BY <1>1, <1>2, <1>3, <1>4, StartTurnSpend, RetryTruncatedSpend, SettleSpend
       DEF Next

\* A run never ends further above its limit than one estimate, two excesses and a
\* notice, whatever the limit and the prices (orchestrator.py:115-122).
THEOREM SpendIsBounded == Spec => []SpendBound
  <1>1. Init => SpendInv
    BY InitTypeInv, SpendAssumption DEF Init, SpendInv, SpendBound, GuardHeld
  <1>2. SpendInv => SpendBound
    BY DEF SpendInv
  <1>3. QED
    BY <1>1, <1>2, NextSpendInv, PTL DEF Spec
-----------------------------------------------------------------------------
(***************************************************************************)
(* The record of the cost.                                                 *)
(***************************************************************************)
\* Between two calls nothing is charged that the run record does not hold.
NothingPending == pc \notin {"calling", "raised"} => call.charged = 0

ChargesInv == TypeInv /\ ChargesKept /\ NothingPending

LEMMA NextChargesInv == ChargesInv /\ [Next]_vars => ChargesInv'
  <1>1. SUFFICES ASSUME ChargesInv, [Next]_vars
                 PROVE  ChargesKept' /\ NothingPending'
    BY NextTypeInv DEF ChargesInv
  <1>2. /\ call \in ProviderCallType /\ call.charged \in Nat
        /\ spend \in Nat /\ told \in Nat
    BY <1>1 DEF ChargesInv, TypeInv, TypeOK, ProviderCallType
  <1>3. CASE UNCHANGED vars
    BY <1>1, <1>3 DEF ChargesInv, ChargesKept, NothingPending, vars, lifeVars,
       turnVars, spendVars
  <1>4. CASE Validate \/ BeginRound \/ LoopExhausted \/ StopOnBudget \/ Conclude
             \/ BeginTools \/ RaiseInTool \/ EndTools
    <2>1. UNCHANGED <<call, spend, told>> /\ pc \notin {"calling", "raised"}
      BY <1>4 DEF Validate, BeginRound, LoopExhausted, StopOnBudget, Conclude,
         BeginTools, RaiseInTool, EndTools, turnVars, spendVars
    <2>2. QED
      BY <1>1, <2>1 DEF ChargesInv, ChargesKept, NothingPending
  <1>5. CASE CollectRequests \/ NoResult \/ ExecuteTool
    <2>1. UNCHANGED <<call, spend, told, pc>>
      BY <1>5 DEF CollectRequests, NoResult, ExecuteTool, lifeVars, turnVars,
         spendVars
    <2>2. QED
      BY <1>1, <2>1 DEF ChargesInv, ChargesKept, NothingPending
  <1>6. CASE StartTurn
    <2>1. call'.charged = 0 /\ pc' = "calling" /\ UNCHANGED <<spend, told>>
      BY <1>6 DEF StartTurn, spendVars
    <2>2. told = spend
      BY <1>1, <1>2, <1>6 DEF StartTurn, ChargesInv, ChargesKept, NothingPending
    <2>3. QED
      BY <1>2, <2>1, <2>2 DEF ChargesKept, NothingPending
  <1>7. CASE RetryTruncated
    <2>1. PICK cost \in AttemptCosts :
              /\ call'.charged = call.charged + cost
              /\ told' = told + cost
      BY <1>7 DEF RetryTruncated, Tell
    <2>2. cost \in Nat
      BY <1>2, CostsNat
    <2>3. pc = "calling" /\ UNCHANGED <<pc, spend>>
      BY <1>7 DEF RetryTruncated, lifeVars
    <2>4. QED
      BY <1>1, <1>2, <2>1, <2>2, <2>3 DEF ChargesInv, ChargesKept, NothingPending
  <1>8. CASE AcceptTurn \/ FailTurn
    <2>1. PICK cost \in AttemptCosts :
              spend' = spend + call.charged + cost /\ told' = told + cost
      BY <1>8 DEF AcceptTurn, FailTurn, ChargeFailure, Tell
    <2>2. cost \in Nat
      BY <1>2, CostsNat
    <2>3. pc = "calling" /\ call'.charged = 0
      BY <1>8 DEF AcceptTurn, FailTurn, NoCall
    <2>4. QED
      BY <1>1, <1>2, <2>1, <2>2, <2>3 DEF ChargesInv, ChargesKept, NothingPending
  <1>9. CASE RaiseInCall
    BY <1>9 DEF RaiseInCall, ChargesKept, NothingPending
  <1>10. QED
    BY <1>1, <1>3, <1>4, <1>5, <1>6, <1>7, <1>8, <1>9 DEF Next

\* On every path through the retry, the provider errors and the early returns,
\* the run record charges what the answers stated (orchestrator.py:126-146).
THEOREM ChargesAreKept == Spec => []ChargesKept
  <1>1. Init => ChargesInv
    BY InitTypeInv DEF Init, ChargesInv, ChargesKept, NothingPending, NoCall
  <1>2. ChargesInv => ChargesKept
    BY DEF ChargesInv
  <1>3. QED
    BY <1>1, <1>2, NextChargesInv, PTL DEF Spec
-----------------------------------------------------------------------------
(***************************************************************************)
(* The status machine: where run() is decides which status it is in.       *)
(***************************************************************************)
StatusInv ==
    /\ pc = "validate" => status = "created"
    /\ pc = "round" => status \in {"validated", "executing_tools"}
    /\ pc \in {"guard", "calling", "collect"} => status = "deliberating"
    /\ pc = "tools" => status = "executing_tools"

\* The moves of the table that a run makes.
LEMMA TableMoves ==
    /\ {"validated", "invalid"} \subseteq Lifecycle!Transitions["created"]
    /\ "deliberating" \in Lifecycle!Transitions["validated"]
    /\ {"executing_tools", "concluded", "budget_exhausted", "failed"}
           \subseteq Lifecycle!Transitions["deliberating"]
    /\ "deliberating" \in Lifecycle!Transitions["executing_tools"]
  BY DEF Lifecycle!Transitions, Lifecycle!Statuses

LEMMA MoveIsTransition ==
    ASSUME NEW to \in Lifecycle!Statuses, to \in Lifecycle!Transitions[status],
           status' = to
    PROVE  Lifecycle!Next
  BY DEF Lifecycle!Next, Lifecycle!Transition

LEMMA NextStatus ==
    StatusInv /\ [Next]_vars => StatusInv' /\ [Lifecycle!Next]_status
  <1>1. SUFFICES ASSUME StatusInv, [Next]_vars
                 PROVE  StatusInv' /\ [Lifecycle!Next]_status
    OBVIOUS
  <1>2. CASE UNCHANGED vars
    BY <1>1, <1>2 DEF StatusInv, vars, lifeVars
  <1>3. CASE Validate
    <2>1. status = "created" /\ status' \in {"validated", "invalid"} /\ StatusInv'
      BY <1>1, <1>3 DEF Validate, StatusInv
    <2>2. QED
      BY <2>1, TableMoves, MoveIsTransition DEF Lifecycle!Statuses
  <1>4. CASE BeginRound
    <2>1. /\ status \in {"validated", "executing_tools"}
          /\ status' = "deliberating" /\ StatusInv'
      BY <1>1, <1>4 DEF BeginRound, StatusInv
    <2>2. QED
      BY <2>1, TableMoves, MoveIsTransition DEF Lifecycle!Statuses
  <1>5. CASE StopOnBudget \/ FailTurn \/ Conclude
    <2>1. /\ status = "deliberating" /\ StatusInv'
          /\ status' \in {"budget_exhausted", "failed", "concluded"}
      BY <1>1, <1>5 DEF StopOnBudget, FailTurn, Conclude, Finish, StatusInv
    <2>2. QED
      BY <2>1, TableMoves, MoveIsTransition DEF Lifecycle!Statuses
  <1>6. CASE BeginTools
    <2>1. status = "deliberating" /\ status' = "executing_tools" /\ StatusInv'
      BY <1>1, <1>6 DEF BeginTools, StatusInv
    <2>2. QED
      BY <2>1, TableMoves, MoveIsTransition DEF Lifecycle!Statuses
  <1>7. CASE LoopExhausted \/ StartTurn \/ AcceptTurn \/ RaiseInCall
             \/ RaiseInTool \/ EndTools
    BY <1>1, <1>7 DEF LoopExhausted, StartTurn, AcceptTurn, RaiseInCall,
       RaiseInTool, EndTools, Finish, StatusInv
  <1>8. CASE RetryTruncated \/ CollectRequests \/ NoResult \/ ExecuteTool
    BY <1>1, <1>8 DEF RetryTruncated, CollectRequests, NoResult, ExecuteTool,
       lifeVars, StatusInv
  <1>9. QED
    BY <1>1, <1>2, <1>3, <1>4, <1>5, <1>6, <1>7, <1>8 DEF Next

\* A run implements the status machine of state.py, so RunState.transition
\* never raises InvalidTransition in the orchestrator (state.py:53-58).
THEOREM RunImplementsLifecycle == Spec => ImplementsLifecycle
  <1>1. Init => StatusInv /\ Lifecycle!Init
    BY DEF Init, StatusInv, Lifecycle!Init
  <1>2. QED
    BY <1>1, NextStatus, PTL DEF Spec, ImplementsLifecycle, Lifecycle!Spec
-----------------------------------------------------------------------------
(***************************************************************************)
(* The rounds.  Turns are appended round after round, and within a round   *)
(* in the speaking order, each role once; a role that ever spoke has       *)
(* spoken in every round but possibly the one under way.                   *)
(***************************************************************************)
Speakers == Len(RoleOrder)

\* Whose turn it is, given where run() is.
Place ==
    /\ pc \in {"guard", "calling", "collect", "tools"} => rnd >= 1
    /\ pc \in {"collect", "tools"} => Len(turns) = prior + Speakers
    /\ pc = "round" /\ rnd > 0 => Len(turns) = prior + Speakers
    /\ pc = "validate" => rnd = 0
    /\ rnd = 0 => turns = <<>> /\ prior = 0

RoundNumbers ==
    \A i \in DOMAIN turns : /\ turns[i].round \in 1..rnd
                            /\ i <= prior => turns[i].round < rnd

InSpeakingOrder ==
    \A i \in DOMAIN turns : i > prior => /\ turns[i].round = rnd
                                         /\ i - prior \in 1..Speakers
                                         /\ turns[i].role = RoleOrder[i - prior]

RoundAfterRound ==
    \A i, j \in DOMAIN turns : i <= j => turns[i].round <= turns[j].round

OncePerRound ==
    \A i, j \in DOMAIN turns :
        turns[i].round = turns[j].round /\ turns[i].role = turns[j].role => i = j

OnlySpeakers == \A i \in DOMAIN turns : \E k \in 1..Speakers : turns[i].role = RoleOrder[k]

EarlierRoundsComplete ==
    \A q \in 1..(rnd - 1), k \in 1..Speakers :
        \E i \in DOMAIN turns : turns[i].round = q /\ turns[i].role = RoleOrder[k]

RoundsInv ==
    /\ Place /\ RoundNumbers /\ InSpeakingOrder /\ RoundAfterRound
    /\ OncePerRound /\ OnlySpeakers /\ EarlierRoundsComplete

LEMMA RoundsInit == Init => RoundsInv
  BY DEF Init, RoundsInv, Place, RoundNumbers, InSpeakingOrder, RoundAfterRound,
       OncePerRound, OnlySpeakers, EarlierRoundsComplete

\* Steps that move on without a new turn or round.
LEMMA RoundsKept ==
    ASSUME RoundsInv, UNCHANGED <<turns, prior, rnd>>,
           \/ pc' = pc \/ pc' \in {"returned", "raised"}
           \/ <<pc, pc'>> \in {<<"validate", "round">>, <<"guard", "calling">>,
                               <<"collect", "tools">>, <<"tools", "round">>}
    PROVE  RoundsInv'
  <1>1. pc' \in {"guard", "calling", "collect", "tools"} => rnd >= 1
    BY DEF RoundsInv, Place, RoundNumbers, InSpeakingOrder, RoundAfterRound,
       OncePerRound, OnlySpeakers, EarlierRoundsComplete
  <1>2. pc' \in {"collect", "tools"} \/ (pc' = "round" /\ rnd > 0)
            => Len(turns) = prior + Speakers
    BY DEF RoundsInv, Place, RoundNumbers, InSpeakingOrder, RoundAfterRound,
       OncePerRound, OnlySpeakers, EarlierRoundsComplete
  <1>3. pc' = "validate" => rnd = 0
    BY DEF RoundsInv, Place, RoundNumbers, InSpeakingOrder, RoundAfterRound,
       OncePerRound, OnlySpeakers, EarlierRoundsComplete
  <1>4. QED
    BY <1>1, <1>2, <1>3 DEF RoundsInv, Place, RoundNumbers, InSpeakingOrder, RoundAfterRound,
       OncePerRound, OnlySpeakers, EarlierRoundsComplete

LEMMA RoundsBegin == TypeInv /\ RoundsInv /\ BeginRound => RoundsInv'
  <1>1. SUFFICES ASSUME TypeInv, RoundsInv, BeginRound PROVE RoundsInv'
    OBVIOUS
  <1>2. /\ pc' = "guard" /\ rnd' = rnd + 1 /\ prior' = Len(turns) /\ turns' = turns
        /\ pc = "round" /\ rnd \in Nat /\ turns \in Seq(TurnType) /\ Speakers \in Nat
    BY <1>1, RoleCount DEF BeginRound, TypeInv, TypeOK, Speakers
  <1>3. \A i \in DOMAIN turns : turns[i].round \in 1..rnd /\ i <= Len(turns)
    BY <1>1, <1>2 DEF RoundsInv, Place, RoundNumbers, InSpeakingOrder, RoundAfterRound,
       OncePerRound, OnlySpeakers, EarlierRoundsComplete
  <1>4. \A q \in 1..rnd, k \in 1..Speakers :
            \E i \in DOMAIN turns : turns[i].round = q /\ turns[i].role = RoleOrder[k]
    <2>1. SUFFICES ASSUME NEW q \in 1..rnd, NEW k \in 1..Speakers
                   PROVE  \E i \in DOMAIN turns :
                              turns[i].round = q /\ turns[i].role = RoleOrder[k]
      OBVIOUS
    <2>2. CASE q < rnd
      <3>1. q \in 1..(rnd - 1)
        BY <1>2, <2>2
      <3>2. QED
        BY <1>1, <3>1 DEF RoundsInv, Place, RoundNumbers, InSpeakingOrder, RoundAfterRound,
       OncePerRound, OnlySpeakers, EarlierRoundsComplete
    <2>3. CASE q = rnd
      <3>1. Len(turns) = prior + Speakers /\ prior \in Nat
        BY <1>1, <1>2 DEF RoundsInv, Place, RoundNumbers, InSpeakingOrder, RoundAfterRound,
       OncePerRound, OnlySpeakers, EarlierRoundsComplete, TypeInv, TypeOK
      <3>2. prior + k \in DOMAIN turns /\ prior + k > prior /\ (prior + k) - prior = k
        BY <1>2, <3>1
      <3>3. QED
        BY <1>1, <2>3, <3>2 DEF RoundsInv, Place, RoundNumbers, InSpeakingOrder, RoundAfterRound,
       OncePerRound, OnlySpeakers, EarlierRoundsComplete
    <2>4. QED
      BY <1>2, <2>2, <2>3
  <1>5. (rnd + 1) - 1 = rnd /\ rnd + 1 >= 1
    BY <1>2
  <1>6. \A i \in DOMAIN turns : turns[i].round \in 1..(rnd + 1) /\ turns[i].round < rnd + 1
    BY <1>2, <1>3
  <1>7. QED
    BY <1>1, <1>2, <1>3, <1>4, <1>5, <1>6 DEF RoundsInv, Place, RoundNumbers, InSpeakingOrder, RoundAfterRound,
       OncePerRound, OnlySpeakers, EarlierRoundsComplete

LEMMA RoundsAccept == TypeInv /\ RoundsInv /\ AcceptTurn => RoundsInv'
  <1>1. SUFFICES ASSUME TypeInv, RoundsInv, AcceptTurn PROVE RoundsInv'
    OBVIOUS
  <1>2. PICK draft \in Drafts : turns' = Append(turns, Turn(draft))
    BY <1>1 DEF AcceptTurn
  <1>3. PICK t \in TurnType : /\ turns' = Append(turns, t)
                              /\ t.round = rnd /\ t.role = RoleOrder[who]
    BY <1>1, <1>2, TurnIsTyped DEF AcceptTurn, Turn
  <1>4. PICK n \in Nat : n = Len(turns)
    BY <1>1 DEF TypeInv, TypeOK
  <1>5. /\ pc = "calling" /\ UNCHANGED <<prior, rnd>> /\ who \in 1..Speakers
        /\ n = prior + who - 1 /\ turns \in Seq(TurnType) /\ rnd \in Nat /\ rnd >= 1
        /\ prior \in Nat /\ Speakers \in Nat
    BY <1>1, <1>4, RoleCount DEF AcceptTurn, TypeInv, TypeOK, Shape, Speakers, RoundsInv, Place, RoundNumbers, InSpeakingOrder, RoundAfterRound,
       OncePerRound, OnlySpeakers, EarlierRoundsComplete
  <1>6. /\ DOMAIN turns = 1..n /\ DOMAIN turns' = 1..(n + 1) /\ Len(turns') = n + 1
        /\ turns'[n + 1] = t /\ \A i \in 1..n : turns'[i] = turns[i]
    <2>1. turns \in Seq(TurnType) /\ t \in TurnType /\ n = Len(turns)
      BY <1>4, <1>5
    <2>2. /\ DOMAIN turns = 1..n /\ DOMAIN Append(turns, t) = 1..(n + 1)
          /\ Len(Append(turns, t)) = n + 1
          /\ Append(turns, t)[n + 1] = t /\ \A i \in 1..n : Append(turns, t)[i] = turns[i]
      BY <2>1, OneAppended
    <2>3. QED
      BY <1>3, <2>2
  <1>7. \A i \in 1..(n + 1) : i \in 1..n \/ i = n + 1
    BY <1>5
  <1>8. n + 1 > prior /\ (n + 1) - prior = who
    BY <1>5
  <1>9. \A i \in 1..n : /\ turns[i].round \in 1..rnd
                        /\ i <= prior => turns[i].round < rnd
                        /\ i > prior => /\ turns[i].round = rnd
                                        /\ i - prior \in 1..Speakers
                                        /\ turns[i].role = RoleOrder[i - prior]
    BY <1>1, <1>6 DEF RoundsInv, Place, RoundNumbers, InSpeakingOrder, RoundAfterRound,
       OncePerRound, OnlySpeakers, EarlierRoundsComplete
  <1>10. \A i \in DOMAIN turns' : /\ turns'[i].round \in 1..rnd
                                  /\ i <= prior => turns'[i].round < rnd
    <2>1. /\ t.round \in 1..rnd /\ ~(n + 1 <= prior)
      BY <1>3, <1>5, <1>8
    <2>2. QED
      BY <1>6, <1>7, <1>9, <2>1
  <1>11. \A i \in DOMAIN turns' : i > prior => /\ turns'[i].round = rnd
                                               /\ i - prior \in 1..Speakers
                                               /\ turns'[i].role = RoleOrder[i - prior]
    <2>1. t.round = rnd /\ (n + 1) - prior \in 1..Speakers
          /\ t.role = RoleOrder[(n + 1) - prior]
      BY <1>3, <1>5, <1>8
    <2>2. QED
      BY <1>6, <1>7, <1>9, <2>1
  <1>12. \A i, j \in DOMAIN turns' : i <= j => turns'[i].round <= turns'[j].round
    <2>1. SUFFICES ASSUME NEW i \in 1..(n + 1), NEW j \in 1..(n + 1), i <= j
                   PROVE  turns'[i].round <= turns'[j].round
      BY <1>6
    <2>2. CASE j = n + 1
      <3>1. turns'[j].round = rnd
        BY <1>3, <1>6, <2>2
      <3>2. turns'[i].round \in 1..rnd
        BY <1>6, <1>10
      <3>3. QED
        BY <1>5, <3>1, <3>2
    <2>3. CASE j # n + 1
      <3>1. i \in 1..n /\ j \in 1..n
        BY <1>4, <2>1, <2>3
      <3>2. QED
        BY <1>1, <1>6, <2>1, <3>1 DEF RoundsInv, Place, RoundNumbers, InSpeakingOrder, RoundAfterRound,
       OncePerRound, OnlySpeakers, EarlierRoundsComplete
    <2>4. QED
      BY <2>2, <2>3
  <1>13. \A i \in 1..n : turns[i].round = rnd => turns[i].role # RoleOrder[who]
    <2>1. SUFFICES ASSUME NEW i \in 1..n, turns[i].round = rnd
                   PROVE  turns[i].role # RoleOrder[who]
      OBVIOUS
    <2>2. i > prior
      <3>1. prior \in Nat /\ i \in Nat /\ rnd \in Nat /\ (i <= prior => turns[i].round < rnd)
        BY <1>5, <1>9
      <3>2. QED
        BY <2>1, <3>1
    <2>3. i - prior \in 1..Speakers /\ turns[i].role = RoleOrder[i - prior]
      BY <1>9, <2>2
    <2>4. i - prior # who
      BY <1>4, <1>8, <2>1, <1>5
    <2>5. QED
      BY <1>5, <2>3, <2>4, RolesAssumption DEF Speakers
  <1>14. \A i, j \in DOMAIN turns' :
             turns'[i].round = turns'[j].round /\ turns'[i].role = turns'[j].role => i = j
    BY <1>1, <1>3, <1>6, <1>7, <1>13 DEF RoundsInv, Place, RoundNumbers, InSpeakingOrder, RoundAfterRound,
       OncePerRound, OnlySpeakers, EarlierRoundsComplete
  <1>15. \A i \in DOMAIN turns' : \E k \in 1..Speakers : turns'[i].role = RoleOrder[k]
    BY <1>1, <1>3, <1>5, <1>6, <1>7 DEF RoundsInv, Place, RoundNumbers, InSpeakingOrder, RoundAfterRound,
       OncePerRound, OnlySpeakers, EarlierRoundsComplete
  <1>16. \A q \in 1..(rnd - 1), k \in 1..Speakers :
             \E i \in DOMAIN turns' : turns'[i].round = q /\ turns'[i].role = RoleOrder[k]
    <2>1. SUFFICES ASSUME NEW q \in 1..(rnd - 1), NEW k \in 1..Speakers
                   PROVE  \E i \in DOMAIN turns' :
                              turns'[i].round = q /\ turns'[i].role = RoleOrder[k]
      OBVIOUS
    <2>2. PICK i \in DOMAIN turns : turns[i].round = q /\ turns[i].role = RoleOrder[k]
      BY <1>1 DEF RoundsInv, Place, RoundNumbers, InSpeakingOrder, RoundAfterRound,
       OncePerRound, OnlySpeakers, EarlierRoundsComplete
    <2>3. i \in DOMAIN turns' /\ turns'[i] = turns[i]
      BY <1>6
    <2>4. QED
      BY <2>2, <2>3
  <1>17. IF who = Speakers THEN pc' = "collect" /\ Len(turns') = prior + Speakers
         ELSE pc' = "guard"
    BY <1>1, <1>5, <1>6 DEF AcceptTurn, Speakers
  <1>18. QED
    BY <1>5, <1>10, <1>11, <1>12, <1>14, <1>15, <1>16, <1>17 DEF RoundsInv, Place, RoundNumbers, InSpeakingOrder, RoundAfterRound,
       OncePerRound, OnlySpeakers, EarlierRoundsComplete

LEMMA NextRounds == TypeInv /\ RoundsInv /\ [Next]_vars => RoundsInv'
  <1>1. SUFFICES ASSUME TypeInv, RoundsInv, [Next]_vars, ~BeginRound, ~AcceptTurn
                 PROVE  RoundsInv'
    BY RoundsBegin, RoundsAccept
  <1>2. UNCHANGED <<turns, prior, rnd>>
    BY <1>1 DEF Next, vars, lifeVars, turnVars, Validate, LoopExhausted, StopOnBudget,
       StartTurn, RetryTruncated, FailTurn, RaiseInCall, CollectRequests, Conclude,
       BeginTools, NoResult, ExecuteTool, RaiseInTool, EndTools
  <1>3. \/ pc' = pc \/ pc' \in {"returned", "raised"}
        \/ <<pc, pc'>> \in {<<"validate", "round">>, <<"guard", "calling">>,
                            <<"collect", "tools">>, <<"tools", "round">>}
    BY <1>1 DEF Next, vars, lifeVars, Validate, LoopExhausted, StopOnBudget, Finish,
       StartTurn, RetryTruncated, FailTurn, RaiseInCall, CollectRequests, Conclude,
       BeginTools, NoResult, ExecuteTool, RaiseInTool, EndTools
  <1>4. QED
    BY <1>1, <1>2, <1>3, RoundsKept

-----------------------------------------------------------------------------
(***************************************************************************)
(* The end of a run, and the record it leaves.                             *)
(***************************************************************************)
\* How a run ends.
EndInv ==
    /\ pc = "tools" => rnd < maxRounds
    /\ pc = "round" => rnd < maxRounds \/ maxRounds = 0
    /\ pc # "returned" => decision = NoDecision
    /\ pc = "returned" =>
           /\ status \in Lifecycle!TerminalStatuses \/ maxRounds = 0
           /\ IF status = "invalid" THEN decision = NoDecision
              ELSE decision = Synthesize(turns, toolCalls)
    /\ status \in {"invalid", "concluded"} => pc \in {"returned", "raised"}
    /\ status = "concluded" =>
           /\ Len(turns) = prior + Speakers
           /\ rnd = maxRounds \/ (rnd >= 2 /\ ~Changed /\ ~Unanswered)

LEMMA SynthesizeDecides == \A ts, calls : Synthesize(ts, calls) # NoDecision
  <1>1. SUFFICES ASSUME NEW ts, NEW calls PROVE Synthesize(ts, calls) # NoDecision
    OBVIOUS
  <1>2. "none" \in DOMAIN NoDecision /\ "none" \notin DOMAIN Synthesize(ts, calls)
    BY DEF NoDecision, Synthesize
  <1>3. QED
    BY <1>2

\* Steps after which run() goes on, or which let an exception out.
LEMMA EndNotYet ==
    ASSUME EndInv, decision' = decision, pc # "returned", pc' # "returned",
           status' \notin {"invalid", "concluded"},
           pc' = "tools" => rnd' < maxRounds',
           pc' = "round" => rnd' < maxRounds' \/ maxRounds' = 0
    PROVE  EndInv'
  BY DEF EndInv

\* return self._finish(...): nothing changes between the decision and the end.
LEMMA EndFinish ==
    ASSUME TypeInv, RoundsInv, StatusInv, EndInv,
           LoopExhausted \/ StopOnBudget \/ FailTurn \/ Conclude
    PROVE  EndInv'
  <1>1. /\ UNCHANGED <<turns, prior, rnd, maxRounds>>
        /\ \/ pc' = "returned" /\ decision' = Synthesize(turns', toolCalls')
           \/ pc' = "raised" /\ decision' = decision
    BY DEF LoopExhausted, StopOnBudget, FailTurn, Conclude, Finish, turnVars, toolVars
  <1>2. (Changed <=> Changed') /\ (Unanswered <=> Unanswered')
    BY <1>1 DEF Changed, Unanswered, RoundTurns
  <1>3. /\ status' # "invalid"
        /\ status' \in Lifecycle!TerminalStatuses \/ maxRounds' = 0
    <2>1. CASE LoopExhausted
      BY <2>1 DEF LoopExhausted, Finish, StatusInv, EndInv, TypeInv, TypeOK
    <2>2. CASE StopOnBudget \/ FailTurn \/ Conclude
      BY <2>2 DEF StopOnBudget, FailTurn, Conclude, Finish, Lifecycle!TerminalStatuses
    <2>3. QED
      BY <2>1, <2>2
  <1>4. status' = "concluded" => Conclude
    BY DEF LoopExhausted, StopOnBudget, FailTurn, Finish, StatusInv
  <1>5. Conclude => /\ Len(turns) = prior + Speakers
                    /\ rnd = maxRounds \/ (rnd >= 2 /\ ~Changed /\ ~Unanswered)
    BY DEF Conclude, Stable, RoundsInv, Place
  <1>6. decision = NoDecision
    BY DEF LoopExhausted, StopOnBudget, FailTurn, Conclude, EndInv
  <1>7. pc' = "returned" \/ pc' = "raised"
    BY <1>1
  <1>8. QED
    BY <1>1, <1>2, <1>3, <1>4, <1>5, <1>6, <1>7 DEF EndInv

LEMMA NextEnd ==
    TypeInv /\ RoundsInv /\ StatusInv /\ EndInv /\ [Next]_vars => EndInv'
  <1>1. SUFFICES ASSUME TypeInv, RoundsInv, StatusInv, EndInv, [Next]_vars PROVE EndInv'
    OBVIOUS
  <1>2. CASE UNCHANGED vars
    <2>1. (Changed <=> Changed') /\ (Unanswered <=> Unanswered')
      BY <1>2 DEF Changed, Unanswered, RoundTurns, vars, turnVars
    <2>2. QED
      BY <1>1, <1>2, <2>1 DEF EndInv, vars, lifeVars, turnVars, toolVars
  <1>3. CASE Validate
    <2>1. CASE status' = "invalid" /\ pc' = "returned"
      BY <1>1, <1>3, <2>1 DEF Validate, EndInv, Lifecycle!TerminalStatuses
    <2>2. CASE status' = "validated" /\ pc' = "round"
      BY <1>1, <1>3, <2>2, EndNotYet DEF Validate, RoundsInv, Place, TypeInv, TypeOK
    <2>3. QED
      BY <1>3, <2>1, <2>2 DEF Validate
  <1>4. CASE BeginTools
    BY <1>1, <1>4, EndNotYet DEF BeginTools, TypeInv, TypeOK
  <1>5. CASE EndTools
    BY <1>1, <1>5, EndNotYet DEF EndTools, StatusInv, EndInv
  <1>6. CASE BeginRound \/ StartTurn \/ AcceptTurn \/ RaiseInCall \/ RaiseInTool
    BY <1>1, <1>6, EndNotYet DEF BeginRound, StartTurn, AcceptTurn, RaiseInCall,
       RaiseInTool, StatusInv
  <1>7. CASE RetryTruncated \/ CollectRequests \/ NoResult \/ ExecuteTool
    BY <1>1, <1>7, EndNotYet DEF RetryTruncated, CollectRequests, NoResult, ExecuteTool,
       lifeVars, StatusInv, EndInv
  <1>8. QED
    BY <1>1, <1>2, <1>3, <1>4, <1>5, <1>6, <1>7, EndFinish DEF Next

\* Items and the calls that made them name each other.
ItemsInv ==
    /\ executed = Len(evidence) /\ executed <= MaxToolCalls
    /\ \A k \in DOMAIN evidence : /\ evidence[k] \in DOMAIN toolCalls
                                  /\ toolCalls[evidence[k]].item = k
    /\ \A c \in DOMAIN toolCalls :
           IF toolCalls[c].status = "ok"
           THEN toolCalls[c].item \in DOMAIN evidence /\ evidence[toolCalls[c].item] = c
           ELSE toolCalls[c].item = 0

\* The record of tool calls only grows, by calls of the round under way; only
\* an executed tool makes an item.
LEMMA ToolCallsGrow ==
    ASSUME TypeInv, [Next]_vars
    PROVE  /\ Extends(toolCalls, toolCalls')
           /\ \A c \in DOMAIN toolCalls' \ DOMAIN toolCalls :
                  /\ toolCalls'[c].round = rnd
                  /\ ~ExecuteTool => toolCalls'[c].status # "ok" /\ toolCalls'[c].item = 0
           /\ ~ExecuteTool => UNCHANGED <<evidence, executed>>
  <1>1. toolCalls \in Seq(ToolCallType)
    BY DEF TypeInv, TypeOK
  <1>2. CASE CollectRequests
    <2>1. PICK skips \in Seq(ToolCallType) :
              /\ toolCalls' = toolCalls \o skips
              /\ \A c \in DOMAIN skips : /\ skips[c].status = "skipped_budget"
                                         /\ skips[c].item = 0 /\ skips[c].round = rnd
      BY <1>2, CollectAppends
    <2>2. UNCHANGED <<evidence, executed>>
      BY <1>2 DEF CollectRequests
    <2>3. QED
      BY <1>1, <2>1, <2>2, Concatenated
  <1>3. CASE Conclude
    <2>1. PICK skips \in Seq(ToolCallType) :
              /\ toolCalls' = toolCalls \o skips
              /\ \A c \in DOMAIN skips : /\ skips[c].status = "skipped_final_round"
                                         /\ skips[c].item = 0 /\ skips[c].round = rnd
      BY <1>3, ConcludeAppends
    <2>2. UNCHANGED <<evidence, executed>>
      BY <1>3 DEF Conclude
    <2>3. QED
      BY <1>1, <2>1, <2>2, Concatenated
  <1>4. CASE NoResult \/ ExecuteTool
    <2>1. PICK record \in ToolCallType : /\ toolCalls' = Append(toolCalls, record)
                                         /\ record.round = rnd
                                         /\ NoResult => record.status # "ok" /\ record.item = 0
      BY <1>4, RecordIsTyped DEF NoResult, ExecuteTool, Record, WithoutResult, Refusal
    <2>2. PICK n \in Nat : n = Len(toolCalls)
      BY <1>1
    <2>3. /\ DOMAIN toolCalls = 1..n /\ DOMAIN toolCalls' = 1..(n + 1)
          /\ toolCalls'[n + 1] = record /\ \A c \in 1..n : toolCalls'[c] = toolCalls[c]
      BY <1>1, <2>1, <2>2, OneAppended
    <2>4. NoResult => UNCHANGED <<evidence, executed>>
      BY DEF NoResult
    <2>5. QED
      BY <1>4, <2>1, <2>3, <2>4 DEF Extends
  <1>5. CASE ~(CollectRequests \/ Conclude \/ NoResult \/ ExecuteTool)
    <2>1. UNCHANGED <<toolCalls, evidence, executed>>
      BY <1>5 DEF Next, vars, toolVars, Validate, BeginRound, LoopExhausted, StopOnBudget,
         StartTurn, RetryTruncated, AcceptTurn, FailTurn, RaiseInCall, BeginTools,
         RaiseInTool, EndTools
    <2>2. QED
      BY <2>1 DEF Extends
  <1>6. QED
    BY <1>2, <1>3, <1>4, <1>5

LEMMA ItemsExecute == TypeInv /\ ItemsInv /\ ExecuteTool => ItemsInv'
  <1>1. SUFFICES ASSUME TypeInv, ItemsInv, ExecuteTool PROVE ItemsInv'
    OBVIOUS
  <1> DEFINE record == Record(GroupRoles, GroupRequest, "ok", Len(evidence) + 1)
  <1>2. PICK n \in Nat, m \in Nat : n = Len(evidence) /\ m = Len(toolCalls)
    BY <1>1 DEF TypeInv, TypeOK
  <1>3. record \in ToolCallType /\ record.status = "ok" /\ record.item = n + 1
    BY <1>1, <1>2, RecordIsTyped DEF ExecuteTool, Record
  <1>4. /\ toolCalls' = Append(toolCalls, record) /\ evidence' = Append(evidence, m + 1)
        /\ executed' = executed + 1 /\ executed < MaxToolCalls
        /\ toolCalls \in Seq(ToolCallType) /\ evidence \in Seq(Nat) /\ m + 1 \in Nat
    BY <1>1, <1>2, LimitsAssumption DEF ExecuteTool, AtCeiling, TypeInv, TypeOK
  <1> HIDE DEF record
  <1>5. /\ DOMAIN toolCalls = 1..m /\ DOMAIN toolCalls' = 1..(m + 1)
        /\ toolCalls'[m + 1] = record /\ \A c \in 1..m : toolCalls'[c] = toolCalls[c]
    BY <1>2, <1>3, <1>4, OneAppended
  <1>6. /\ DOMAIN evidence = 1..n /\ DOMAIN evidence' = 1..(n + 1) /\ Len(evidence') = n + 1
        /\ evidence'[n + 1] = m + 1 /\ \A k \in 1..n : evidence'[k] = evidence[k]
    BY <1>2, <1>4, OneAppended
  <1>7. executed' = Len(evidence') /\ executed' <= MaxToolCalls
    BY <1>1, <1>2, <1>4, <1>6, LimitsAssumption DEF ItemsInv
  <1>8. \A k \in 1..(n + 1) : /\ evidence'[k] \in 1..(m + 1)
                              /\ toolCalls'[evidence'[k]].item = k
    <2>1. ASSUME NEW k \in 1..n
          PROVE  evidence'[k] \in 1..m /\ toolCalls'[evidence'[k]].item = k
      <3>1. evidence[k] \in 1..m /\ toolCalls[evidence[k]].item = k
        BY <1>1, <1>5, <1>6 DEF ItemsInv
      <3>2. QED
        BY <1>5, <1>6, <3>1
    <2>2. evidence'[n + 1] = m + 1 /\ toolCalls'[m + 1].item = n + 1
      BY <1>3, <1>5, <1>6
    <2>3. QED
      BY <2>1, <2>2
  <1>9. \A c \in 1..(m + 1) :
            IF toolCalls'[c].status = "ok"
            THEN toolCalls'[c].item \in 1..(n + 1) /\ evidence'[toolCalls'[c].item] = c
            ELSE toolCalls'[c].item = 0
    <2>1. \A c \in 1..m :
              IF toolCalls'[c].status = "ok"
              THEN toolCalls'[c].item \in 1..n /\ evidence'[toolCalls'[c].item] = c
              ELSE toolCalls'[c].item = 0
      BY <1>1, <1>5, <1>6 DEF ItemsInv
    <2>2. toolCalls'[m + 1].status = "ok" /\ toolCalls'[m + 1].item = n + 1
          /\ evidence'[n + 1] = m + 1
      BY <1>3, <1>5, <1>6
    <2>3. QED
      BY <2>1, <2>2
  <1>10. QED
    BY <1>5, <1>6, <1>7, <1>8, <1>9 DEF ItemsInv

LEMMA NextItems == TypeInv /\ ItemsInv /\ [Next]_vars => ItemsInv'
  <1>1. SUFFICES ASSUME TypeInv, ItemsInv, [Next]_vars, ~ExecuteTool PROVE ItemsInv'
    BY ItemsExecute
  <1>2. /\ Extends(toolCalls, toolCalls') /\ UNCHANGED <<evidence, executed>>
        /\ \A c \in DOMAIN toolCalls' \ DOMAIN toolCalls :
               toolCalls'[c].status # "ok" /\ toolCalls'[c].item = 0
    BY <1>1, ToolCallsGrow
  <1>3. QED
    BY <1>1, <1>2 DEF ItemsInv, Extends

RunInv == TypeInv /\ StatusInv /\ RoundsInv /\ EndInv /\ ItemsInv

LEMMA AlwaysRunInv == Spec => []RunInv
  <1>1. Init => RunInv
    <2>1. Init => EndInv
      BY LimitsAssumption DEF Init, EndInv
    <2>2. Init => ItemsInv
      BY LimitsAssumption DEF Init, ItemsInv
    <2>3. QED
      BY <2>1, <2>2, InitTypeInv, RoundsInit DEF RunInv, Init, StatusInv
  <1>2. RunInv /\ [Next]_vars => RunInv'
    BY NextTypeInv, NextStatus, NextRounds, NextEnd, NextItems DEF RunInv
  <1>3. QED
    BY <1>1, <1>2, PTL DEF Spec

\* A returned run is settled, its decision follows from its turns and calls, and
\* its evidence items and its successful calls are one to one within the ceiling,
\* whatever was asked and however the run ended (orchestrator.py:169-195).
THEOREM RecordsAreConsistent == Spec => []RecordConsistent
  <1>1. RunInv => RecordConsistent
    BY SynthesizeDecides DEF RunInv, EndInv, ItemsInv, RecordConsistent, ReturnsSettled
  <1>2. QED
    BY <1>1, AlwaysRunInv, PTL
-----------------------------------------------------------------------------
(***************************************************************************)
(* The decision record and the last word.                                  *)
(***************************************************************************)
\* A turn after which its role does not speak again is that role's last turn.
LEMMA LastTurnIs ==
    ASSUME NEW ts \in Seq(TurnType), NEW i \in DOMAIN ts,
           \A j \in DOMAIN ts : ts[j].role = ts[i].role => j <= i
    PROVE  /\ LastTurn(ts, ts[i].role) = ts[i]
           /\ FinalPosition(ts, ts[i].role) = ts[i].position
  <1> DEFINE P(x) == /\ ts[x].role = ts[i].role
                     /\ \A j \in DOMAIN ts : ts[j].role = ts[i].role => j <= x
  <1>1. P(i)
    OBVIOUS
  <1>2. DOMAIN ts \subseteq Nat
    OBVIOUS
  <1>3. ASSUME NEW x \in DOMAIN ts, P(x) PROVE x = i
    <2>1. x <= i /\ i <= x
      BY <1>3
    <2>2. QED
      BY <1>2, <2>1
  <1>4. (CHOOSE x \in DOMAIN ts : P(x)) = i
    <2> HIDE DEF P
    <2> QED
      BY <1>1, <1>3
  <1>5. LastTurn(ts, ts[i].role) = ts[i]
    BY <1>4 DEF LastTurn
  <1>6. QED
    BY <1>5 DEF FinalPosition, Spoken

LEMMA LastTurnExists ==
    ASSUME NEW ts \in Seq(TurnType), NEW r \in Spoken(ts)
    PROVE  \E i \in DOMAIN ts : /\ ts[i].role = r
                                /\ \A j \in DOMAIN ts : ts[j].role = r => j <= i
  <1>1. PICK n \in Nat : n = Len(ts) /\ DOMAIN ts = 1..n
    OBVIOUS
  <1> DEFINE Back == {n - i : i \in {j \in 1..n : ts[j].role = r}}
  <1>2. Back \in SUBSET Nat /\ Back # {}
    <2>1. \A i \in 1..n : n - i \in Nat
      BY <1>1
    <2>2. \E i \in 1..n : ts[i].role = r
      BY <1>1 DEF Spoken
    <2>3. QED
      BY <2>1, <2>2
  <1>3. Least(Back) \in Back /\ \A b \in Back : Least(Back) <= b
    <2> HIDE DEF Back
    <2> QED
      BY <1>2, LeastIsMember
  <1>4. PICK i \in 1..n : ts[i].role = r /\ Least(Back) = n - i
    BY <1>3
  <1>5. \A j \in 1..n : ts[j].role = r => n - i <= n - j
    BY <1>3, <1>4
  <1>6. QED
    BY <1>1, <1>4, <1>5

\* Who ever spoke has spoken in the last round or in the one before.
LEMMA LastTurnInWindow ==
    ASSUME TypeInv, RoundsInv, NEW i \in DOMAIN turns,
           \A j \in DOMAIN turns : turns[j].role = turns[i].role => j <= i
    PROVE  InWindow(turns, i)
  <1>1. PICK n \in Nat : n = Len(turns) /\ DOMAIN turns = 1..n
    BY DEF TypeInv, TypeOK
  <1>2. n \in DOMAIN turns /\ turns # <<>>
    BY <1>1
  <1>3. PICK f \in Nat : f = turns[n].round /\ f \in 1..rnd
    BY <1>2 DEF RoundsInv, RoundNumbers
  <1>4. FinalRound(turns) = f
    BY <1>1, <1>2, <1>3 DEF FinalRound
  <1>5. turns[i].round \in 1..rnd /\ rnd \in Nat
    BY DEF RoundsInv, RoundNumbers, TypeInv, TypeOK
  <1>6. ASSUME turns[i].round < f - 1 PROVE FALSE
    <2>1. f - 1 \in 1..(rnd - 1)
      BY <1>3, <1>5, <1>6
    <2>2. PICK k \in 1..Speakers : turns[i].role = RoleOrder[k]
      BY DEF RoundsInv, OnlySpeakers
    <2>3. PICK j \in DOMAIN turns : turns[j].round = f - 1 /\ turns[j].role = RoleOrder[k]
      BY <2>1 DEF RoundsInv, EarlierRoundsComplete
    <2>4. turns[j].round <= turns[i].round
      <3>1. j \in Nat /\ i \in Nat /\ (i <= j \/ j <= i)
        BY <1>1
      <3>2. j <= i
        BY <2>2, <2>3
      <3>3. QED
        BY <3>2 DEF RoundsInv, RoundAfterRound
    <2>5. QED
      BY <1>3, <1>5, <1>6, <2>3, <2>4
  <1>7. turns[i].round >= f - 1
    BY <1>3, <1>5, <1>6
  <1>8. QED
    BY <1>4, <1>7 DEF InWindow

\* What a role said last is in the decision record while its target ends on another
\* position, also when the last round was cut short (decision.py:103-117).
THEOREM LastWordIsKept == Spec => []LastWordKept
  <1>1. ASSUME RunInv, decision # NoDecision PROVE LastWordKept
    <2>1. decision = Synthesize(turns, toolCalls) /\ turns \in Seq(TurnType)
      BY <1>1 DEF RunInv, EndInv, TypeInv, TypeOK
    <2>2. /\ decision.open = OpenChallenges(turns)
          /\ \A r \in Spoken(turns) : decision.final[r] = FinalPosition(turns, r)
      BY <2>1 DEF Synthesize
    <2>3. ASSUME NEW r \in Spoken(turns), NEW t \in Roles,
                 t \in LastTurn(turns, r).challenges,
                 FinalPosition(turns, t) # FinalPosition(turns, r)
          PROVE  <<r, t>> \in decision.open
      <3>1. PICK i \in DOMAIN turns :
                /\ turns[i].role = r
                /\ \A j \in DOMAIN turns : turns[j].role = r => j <= i
        BY <2>1, LastTurnExists
      <3>2. turns[i].role = r /\ r \in Roles /\ LastTurn(turns, r) = turns[i]
        <4>1. turns[i] \in TurnType
          BY <2>1
        <4>2. QED
          BY <2>1, <3>1, <4>1, LastTurnIs DEF TurnType
      <3>3. InWindow(turns, i)
        BY <1>1, <3>1, LastTurnInWindow DEF RunInv
      <3>4. <<r, t>> \in LatestChallenges(turns)
        BY <2>3, <3>2, <3>3 DEF LatestChallenges
      <3>5. QED
        BY <2>2, <2>3, <3>4 DEF OpenChallenges
    <2>4. ASSUME NEW p \in decision.open
          PROVE  p[2] \notin Spoken(turns) \/ decision.final[p[1]] # decision.final[p[2]]
      <3>1. p[1] \in Spoken(turns) /\ FinalPosition(turns, p[2]) # FinalPosition(turns, p[1])
        BY <2>2 DEF OpenChallenges, LatestChallenges, Spoken
      <3>2. QED
        BY <2>2, <3>1
    <2>5. QED
      BY <2>3, <2>4 DEF LastWordKept
  <1>2. RunInv => LastWordKept
    BY <1>1 DEF LastWordKept
  <1>3. QED
    BY <1>2, AlwaysRunInv, PTL

\* When all have spoken in a round, their turns of this round are their last.
LEMMA RoundTurnsAreLast ==
    ASSUME TypeInv, RoundsInv, NEW i \in DOMAIN turns, turns[i].round = rnd
    PROVE  /\ i > prior
           /\ LastTurn(turns, turns[i].role) = turns[i]
           /\ FinalPosition(turns, turns[i].role) = turns[i].position
  <1>1. turns \in Seq(TurnType) /\ rnd \in Nat /\ prior \in Nat /\ i \in Nat
    BY DEF TypeInv, TypeOK
  <1>2. i > prior
    BY <1>1 DEF RoundsInv, RoundNumbers
  <1>3. ASSUME NEW j \in DOMAIN turns, turns[j].role = turns[i].role PROVE j <= i
    <2>1. j \in Nat /\ turns[j].round \in 1..rnd
      BY <1>1 DEF RoundsInv, RoundNumbers
    <2>2. CASE i <= j
      <3>1. turns[j].round = turns[i].round
        BY <1>1, <2>1, <2>2 DEF RoundsInv, RoundAfterRound
      <3>2. QED
        BY <1>1, <1>3, <2>1, <3>1 DEF RoundsInv, OncePerRound
    <2>3. QED
      BY <1>1, <2>1, <2>2
  <1>4. QED
    BY <1>1, <1>2, <1>3, LastTurnIs

\* A debate that stops before its last round has settled: every role stands where
\* it stood a round ago, and what the record still lists was not said again
\* (orchestrator.py:160-168).
THEOREM EarlyStopsAreSettled == Spec => []EarlyStopSettled
  <1>1. ASSUME RunInv, pc = "returned", status = "concluded", rnd < maxRounds
        PROVE  EarlyStopSettled
    <2>1. /\ decision = Synthesize(turns, toolCalls) /\ turns \in Seq(TurnType)
          /\ Len(turns) = prior + Speakers /\ rnd >= 2 /\ ~Changed /\ ~Unanswered
          /\ rnd \in Nat /\ prior \in Nat /\ prior <= Len(turns) /\ Speakers \in Nat
          /\ TypeInv /\ RoundsInv
      BY <1>1, RoleCount DEF RunInv, EndInv, TypeInv, TypeOK, Speakers
    <2>2. /\ decision.open = OpenChallenges(turns)
          /\ \A r \in Spoken(turns) : decision.final[r] = FinalPosition(turns, r)
      BY <2>1 DEF Synthesize
    <2>3. \A k \in 1..Speakers :
              /\ prior + k \in RoundTurns /\ prior + k \in DOMAIN turns
              /\ turns[prior + k].round = rnd /\ turns[prior + k].role = RoleOrder[k]
      <3>1. SUFFICES ASSUME NEW k \in 1..Speakers
                     PROVE  /\ prior + k \in RoundTurns /\ prior + k \in DOMAIN turns
                            /\ turns[prior + k].round = rnd
                            /\ turns[prior + k].role = RoleOrder[k]
        OBVIOUS
      <3>2. /\ prior + k \in RoundTurns /\ prior + k \in DOMAIN turns
            /\ prior + k > prior /\ (prior + k) - prior = k
        BY <2>1 DEF RoundTurns
      <3>3. QED
        BY <2>1, <3>2 DEF RoundsInv, InSpeakingOrder
    <2>4. ASSUME NEW r \in Spoken(turns)
          PROVE  \E m \in RoundTurns : /\ m \in DOMAIN turns /\ turns[m].role = r
                                       /\ LastTurn(turns, r) = turns[m]
                                       /\ FinalPosition(turns, r) = turns[m].position
      <3>1. PICK k \in 1..Speakers : r = RoleOrder[k]
        BY <2>1 DEF RoundsInv, OnlySpeakers, Spoken
      <3>2. /\ prior + k \in RoundTurns /\ prior + k \in DOMAIN turns
            /\ turns[prior + k].round = rnd /\ turns[prior + k].role = r
        BY <2>3, <3>1
      <3>3. LastTurn(turns, r) = turns[prior + k]
            /\ FinalPosition(turns, r) = turns[prior + k].position
        BY <2>1, <3>2, RoundTurnsAreLast
      <3>4. QED
        BY <3>2, <3>3
    <2>5. ASSUME NEW i \in DOMAIN turns, turns[i].round >= rnd - 1
          PROVE  turns[i].position = decision.final[turns[i].role]
      <3>1. turns[i].role \in Spoken(turns) /\ turns[i].round \in 1..rnd /\ i \in Nat
        BY <2>1 DEF Spoken, RoundsInv, RoundNumbers
      <3>2. CASE turns[i].round = rnd
        BY <2>1, <2>2, <3>1, <3>2, RoundTurnsAreLast
      <3>3. CASE turns[i].round = rnd - 1
        <4> DEFINE before == SubSeq(turns, 1, prior)
        <4>1. i <= prior
          BY <2>1, <3>1, <3>3 DEF RoundsInv, InSpeakingOrder
        <4>2. /\ before \in Seq(TurnType) /\ DOMAIN before = 1..prior
              /\ \A j \in 1..prior : before[j] = turns[j] /\ j \in DOMAIN turns
          BY <2>1
        <4>3. i \in DOMAIN before /\ before[i] = turns[i]
          BY <3>1, <4>1, <4>2, <2>1
        <4>4. ASSUME NEW j \in DOMAIN before, before[j].role = before[i].role PROVE j <= i
          <5>1. j \in 1..prior /\ j \in DOMAIN turns /\ turns[j].role = turns[i].role
            BY <4>2, <4>3, <4>4
          <5>2. turns[j].round \in 1..rnd /\ turns[j].round < rnd
            BY <2>1, <5>1 DEF RoundsInv, RoundNumbers
          <5>3. CASE i <= j
            <6>1. turns[i].round <= turns[j].round
              BY <2>1, <5>1, <5>3 DEF RoundsInv, RoundAfterRound
            <6>2. turns[j].round = turns[i].round
              BY <2>1, <3>3, <5>2, <6>1
            <6>3. i = j
              BY <2>1, <5>1, <6>2 DEF RoundsInv, OncePerRound
            <6>4. QED
              BY <3>1, <6>3
          <5>4. QED
            BY <3>1, <5>1, <5>3
        <4> HIDE DEF before
        <4>5. FinalPosition(before, turns[i].role) = turns[i].position
          BY <4>2, <4>3, <4>4, LastTurnIs
        <4>6. PICK m \in RoundTurns :
                  /\ m \in DOMAIN turns /\ turns[m].role = turns[i].role
                  /\ FinalPosition(turns, turns[i].role) = turns[m].position
          BY <2>4, <3>1
        <4>7. FinalPosition(before, turns[m].role) = turns[m].position
          BY <2>1, <4>6 DEF Changed, before
        <4>8. QED
          BY <2>2, <3>1, <4>5, <4>6, <4>7
      <3>4. QED
        BY <2>1, <2>5, <3>1, <3>2, <3>3
    <2>6. ASSUME NEW p \in decision.open, p[2] \in Spoken(turns),
                 p[2] \in LastTurn(turns, p[1]).challenges
          PROVE  FALSE
      <3>1. p[1] \in Spoken(turns) /\ FinalPosition(turns, p[2]) # FinalPosition(turns, p[1])
        BY <2>2 DEF OpenChallenges, LatestChallenges, Spoken
      <3>2. PICK m1 \in RoundTurns : /\ LastTurn(turns, p[1]) = turns[m1]
                                     /\ FinalPosition(turns, p[1]) = turns[m1].position
        BY <2>4, <3>1
      <3>3. PICK m2 \in RoundTurns : /\ turns[m2].role = p[2]
                                     /\ FinalPosition(turns, p[2]) = turns[m2].position
        BY <2>4, <2>6
      <3>4. turns[m2].position = turns[m1].position
        BY <2>1, <2>6, <3>2, <3>3 DEF Unanswered
      <3>5. QED
        BY <3>1, <3>2, <3>3, <3>4
    <2>7. QED
      BY <2>5, <2>6 DEF EarlyStopSettled
  <1>2. RunInv => EarlyStopSettled
    BY <1>1 DEF EarlyStopSettled
  <1>3. QED
    BY <1>2, AlwaysRunInv, PTL
-----------------------------------------------------------------------------
(***************************************************************************)
(* What a turn has seen.                                                   *)
(***************************************************************************)
CallsInRound ==
    \A c \in DOMAIN toolCalls : /\ toolCalls[c].round <= rnd
                                /\ pc \in {"guard", "calling"} => toolCalls[c].round < rnd

PriorIsEarlier ==
    \A i, j \in DOMAIN turns : /\ turns[i].prior <= Len(turns)
                               /\ j <= turns[i].prior <=> turns[j].round < turns[i].round

SeenIsEarlier ==
    \A i \in DOMAIN turns :
        /\ turns[i].seen <= Len(evidence)
        /\ \A k \in DOMAIN evidence :
               k <= turns[i].seen <=> toolCalls[evidence[k]].round < turns[i].round

FootingInv ==
    /\ CallsInRound /\ PriorIsEarlier /\ SeenIsEarlier
    /\ pc = "calling" => call.seen = Len(evidence)

LEMMA RecordedTypes ==
    ASSUME TypeInv
    PROVE  /\ \A i \in DOMAIN turns : /\ turns[i] \in TurnType
                                      /\ turns[i].round \in Nat
                                      /\ turns[i].prior \in Nat /\ turns[i].seen \in Nat
           /\ \A c \in DOMAIN toolCalls : /\ toolCalls[c] \in ToolCallType
                                          /\ toolCalls[c].round \in Nat
  <1>1. turns \in Seq(TurnType) /\ toolCalls \in Seq(ToolCallType)
    BY DEF TypeInv, TypeOK
  <1>2. ASSUME NEW i \in DOMAIN turns
        PROVE  /\ turns[i] \in TurnType /\ turns[i].round \in Nat
               /\ turns[i].prior \in Nat /\ turns[i].seen \in Nat
    <2>1. turns[i] \in TurnType
      BY <1>1
    <2>2. QED
      BY <2>1 DEF TurnType
  <1>3. ASSUME NEW c \in DOMAIN toolCalls
        PROVE  toolCalls[c] \in ToolCallType /\ toolCalls[c].round \in Nat
    <2>1. toolCalls[c] \in ToolCallType
      BY <1>1
    <2>2. QED
      BY <2>1 DEF ToolCallType
  <1>4. QED
    BY <1>2, <1>3

LEMMA NextCallsInRound == RunInv /\ FootingInv /\ [Next]_vars => CallsInRound'
  <1>1. SUFFICES ASSUME RunInv, FootingInv, [Next]_vars PROVE CallsInRound'
    OBVIOUS
  <1>2. CallsInRound /\ rnd \in Nat /\ TypeInv /\ toolCalls \in Seq(ToolCallType)
    BY <1>1 DEF FootingInv, RunInv, TypeInv, TypeOK
  <1>3. \A c \in DOMAIN toolCalls : toolCalls[c].round \in Nat
    BY <1>2, RecordedTypes
  <1>4. CASE BeginRound
    <2>1. UNCHANGED toolCalls /\ rnd' = rnd + 1
      BY <1>4 DEF BeginRound, toolVars
    <2>2. QED
      BY <1>2, <1>3, <2>1 DEF CallsInRound
  <1>5. CASE CollectRequests \/ Conclude \/ NoResult \/ ExecuteTool
    <2>1. rnd' = rnd /\ pc' \notin {"guard", "calling"}
      BY <1>5 DEF CollectRequests, Conclude, Finish, NoResult, ExecuteTool, lifeVars
    <2>2. \A c \in DOMAIN toolCalls' : toolCalls'[c].round <= rnd
      <3>1. /\ Extends(toolCalls, toolCalls')
            /\ \A c \in DOMAIN toolCalls' \ DOMAIN toolCalls : toolCalls'[c].round = rnd
        BY <1>1, <1>2, ToolCallsGrow
      <3>2. QED
        BY <1>2, <3>1 DEF CallsInRound, Extends
    <2>3. QED
      BY <2>1, <2>2 DEF CallsInRound
  <1>6. CASE ~(BeginRound \/ CollectRequests \/ Conclude \/ NoResult \/ ExecuteTool)
    <2>1. /\ UNCHANGED <<toolCalls, rnd>>
          /\ pc' \in {"guard", "calling"} => pc \in {"guard", "calling"}
      BY <1>1, <1>6 DEF Next, vars, lifeVars, toolVars, Validate, LoopExhausted,
         StopOnBudget, Finish, StartTurn, RetryTruncated, AcceptTurn, FailTurn,
         RaiseInCall, BeginTools, RaiseInTool, EndTools
    <2>2. QED
      BY <1>2, <2>1 DEF CallsInRound
  <1>7. QED
    BY <1>4, <1>5, <1>6

LEMMA AcceptFooting ==
    RunInv /\ FootingInv /\ AcceptTurn => PriorIsEarlier' /\ SeenIsEarlier'
  <1>1. SUFFICES ASSUME RunInv, FootingInv, AcceptTurn
                 PROVE  PriorIsEarlier' /\ SeenIsEarlier'
    OBVIOUS
  <1>2. PICK draft \in Drafts : turns' = Append(turns, Turn(draft))
    BY <1>1 DEF AcceptTurn
  <1>3. PICK t \in TurnType :
            /\ turns' = Append(turns, t)
            /\ t.round = rnd /\ t.prior = prior /\ t.seen = call.seen
    BY <1>1, <1>2, TurnIsTyped DEF AcceptTurn, Turn, RunInv
  <1>4. PICK n \in Nat : n = Len(turns)
    BY <1>1 DEF RunInv, TypeInv, TypeOK
  <1>5. /\ turns \in Seq(TurnType) /\ prior \in 0..n /\ rnd \in Nat
        /\ pc = "calling" /\ call.seen = Len(evidence) /\ evidence \in Seq(Nat)
        /\ UNCHANGED <<evidence, toolCalls>> /\ RoundsInv /\ RoundsInv' /\ rnd' = rnd
        /\ prior' = prior
    BY <1>1, <1>4, RoundsAccept DEF RunInv, FootingInv, TypeInv, TypeOK, AcceptTurn, toolVars
  <1>6. /\ DOMAIN turns = 1..n /\ DOMAIN turns' = 1..(n + 1) /\ Len(turns') = n + 1
        /\ turns'[n + 1] = t /\ \A i \in 1..n : turns'[i] = turns[i]
    <2>1. /\ DOMAIN turns = 1..n /\ DOMAIN Append(turns, t) = 1..(n + 1)
          /\ Len(Append(turns, t)) = n + 1
          /\ Append(turns, t)[n + 1] = t /\ \A i \in 1..n : Append(turns, t)[i] = turns[i]
      BY <1>4, <1>5, OneAppended
    <2>2. QED
      BY <1>3, <2>1
  <1>7. \A i \in 1..(n + 1) : i \in 1..n \/ i = n + 1
    BY <1>4
  <1>8. \A i \in 1..n : /\ turns[i].prior \in Nat /\ turns[i].prior <= n
                        /\ turns[i].round \in 1..rnd
    BY <1>1, <1>4, <1>5, <1>6, RecordedTypes
       DEF RunInv, FootingInv, PriorIsEarlier, RoundsInv, RoundNumbers
  <1>9. PriorIsEarlier'
    <2>1. SUFFICES ASSUME NEW i \in 1..(n + 1), NEW j \in 1..(n + 1)
                   PROVE  /\ turns'[i].prior <= n + 1
                          /\ j <= turns'[i].prior <=> turns'[j].round < turns'[i].round
      BY <1>6 DEF PriorIsEarlier
    <2>2. CASE i \in 1..n /\ j \in 1..n
      <3>1. j <= turns[i].prior <=> turns[j].round < turns[i].round
        BY <1>1, <1>6, <2>2 DEF FootingInv, PriorIsEarlier
      <3>2. turns[i].prior <= n + 1
        BY <1>8, <2>2
      <3>3. QED
        BY <1>6, <2>2, <3>1, <3>2
    <2>3. CASE i \in 1..n /\ j = n + 1
      <3>1. /\ turns[i].prior \in Nat /\ turns[i].prior <= n /\ ~(n + 1 <= turns[i].prior)
            /\ ~(rnd < turns[i].round)
        BY <1>4, <1>5, <1>8, <2>3
      <3>2. turns'[j].round = rnd /\ turns'[i] = turns[i] /\ turns[i].prior <= n + 1
        BY <1>3, <1>6, <2>3, <3>1
      <3>3. QED
        BY <2>3, <3>1, <3>2
    <2>4. CASE i = n + 1
      <3>1. turns'[i].prior = prior /\ turns'[i].round = rnd /\ prior <= n + 1
        BY <1>3, <1>5, <1>6, <2>4
      <3>2. /\ j <= prior => turns'[j].round < rnd
            /\ j > prior => turns'[j].round = rnd
        BY <1>5, <1>6 DEF RoundsInv, RoundNumbers, InSpeakingOrder
      <3>3. QED
        BY <1>5, <3>1, <3>2
    <2>5. QED
      BY <1>7, <2>2, <2>3, <2>4
  <1>10. SeenIsEarlier'
    <2>1. SUFFICES ASSUME NEW i \in 1..(n + 1)
                   PROVE  /\ turns'[i].seen <= Len(evidence)
                          /\ \A k \in DOMAIN evidence :
                                 k <= turns'[i].seen
                                     <=> toolCalls[evidence[k]].round < turns'[i].round
      BY <1>5, <1>6 DEF SeenIsEarlier
    <2>2. CASE i \in 1..n
      BY <1>1, <1>6, <2>2 DEF FootingInv, SeenIsEarlier
    <2>3. CASE i = n + 1
      <3>1. turns'[i].seen = Len(evidence) /\ turns'[i].round = rnd
        BY <1>3, <1>5, <1>6, <2>3
      <3>2. \A k \in DOMAIN evidence : toolCalls[evidence[k]].round < rnd
        BY <1>1, <1>5 DEF RunInv, ItemsInv, FootingInv, CallsInRound
      <3>3. QED
        BY <1>5, <3>1, <3>2
    <2>4. QED
      BY <1>7, <2>2, <2>3
  <1>11. QED
    BY <1>9, <1>10

\* The items of a round come after all its turns.
LEMMA ExecuteFooting == RunInv /\ FootingInv /\ ExecuteTool => SeenIsEarlier'
  <1>1. SUFFICES ASSUME RunInv, FootingInv, ExecuteTool PROVE SeenIsEarlier'
    OBVIOUS
  <1>2. PICK n \in Nat : n = Len(evidence)
    BY <1>1 DEF RunInv, TypeInv, TypeOK
  <1>3. /\ evidence' = Append(evidence, Len(toolCalls) + 1) /\ turns' = turns
        /\ evidence \in Seq(Nat) /\ Len(toolCalls) + 1 \in Nat /\ turns \in Seq(TurnType)
        /\ rnd \in Nat /\ toolCalls \in Seq(ToolCallType) /\ TypeInv
    BY <1>1 DEF RunInv, TypeInv, TypeOK, ExecuteTool, turnVars
  <1>4. /\ DOMAIN evidence = 1..n /\ DOMAIN evidence' = 1..(n + 1) /\ Len(evidence') = n + 1
        /\ evidence'[n + 1] = Len(toolCalls) + 1
        /\ \A k \in 1..n : evidence'[k] = evidence[k]
    BY <1>2, <1>3, OneAppended
  <1>5. /\ Extends(toolCalls, toolCalls')
        /\ \A c \in DOMAIN toolCalls' \ DOMAIN toolCalls : toolCalls'[c].round = rnd
    BY <1>1, <1>3, ToolCallsGrow DEF Next
  <1>6. \A k \in 1..n : toolCalls'[evidence'[k]] = toolCalls[evidence[k]]
    BY <1>1, <1>4, <1>5 DEF RunInv, ItemsInv, Extends
  <1>7. toolCalls'[evidence'[n + 1]].round = rnd
    <2>1. Len(toolCalls) + 1 \notin DOMAIN toolCalls
      BY <1>3
    <2>2. ItemsInv'
      BY <1>1, ItemsExecute DEF RunInv
    <2>3. evidence'[n + 1] \in DOMAIN toolCalls'
      BY <1>2, <1>4, <2>2 DEF ItemsInv
    <2>4. QED
      BY <1>4, <1>5, <2>1, <2>3
  <1>8. \A i \in DOMAIN turns : /\ turns[i].round \in 1..rnd
                                /\ turns[i].seen \in Nat /\ turns[i].seen <= n
    BY <1>1, <1>2, <1>3, RecordedTypes
       DEF RunInv, RoundsInv, RoundNumbers, FootingInv, SeenIsEarlier
  <1>9. SUFFICES ASSUME NEW i \in DOMAIN turns, NEW k \in 1..(n + 1)
                 PROVE  /\ turns[i].seen <= n + 1
                        /\ k <= turns[i].seen
                               <=> toolCalls'[evidence'[k]].round < turns[i].round
    BY <1>3, <1>4, <1>8 DEF SeenIsEarlier
  <1>10. turns[i].seen <= n + 1
    BY <1>8
  <1>11. CASE k \in 1..n
    BY <1>1, <1>4, <1>6, <1>10, <1>11 DEF FootingInv, SeenIsEarlier
  <1>12. CASE k = n + 1
    <2>1. ~(n + 1 <= turns[i].seen) /\ ~(rnd < turns[i].round)
      BY <1>3, <1>8
    <2>2. QED
      BY <1>7, <1>10, <1>12, <2>1
  <1>13. QED
    BY <1>11, <1>12

LEMMA NextFooting == RunInv /\ FootingInv /\ [Next]_vars => FootingInv'
  <1>1. SUFFICES ASSUME RunInv, FootingInv, [Next]_vars
                 PROVE  /\ PriorIsEarlier' /\ SeenIsEarlier'
                        /\ pc' = "calling" => call'.seen = Len(evidence')
    BY NextCallsInRound DEF FootingInv
  <1>2. pc' = "calling" => call'.seen = Len(evidence')
    <2>1. CASE StartTurn
      BY <2>1 DEF StartTurn, toolVars
    <2>2. CASE RetryTruncated
      BY <1>1, <2>2 DEF RetryTruncated, toolVars, FootingInv
    <2>3. CASE UNCHANGED vars
      BY <1>1, <2>3 DEF vars, lifeVars, turnVars, toolVars, FootingInv
    <2>4. CASE ~(StartTurn \/ RetryTruncated \/ UNCHANGED vars)
      <3>1. pc' # "calling"
        BY <1>1, <2>4 DEF Next, lifeVars, Validate, BeginRound, LoopExhausted, StopOnBudget,
           Finish, AcceptTurn, FailTurn, RaiseInCall, CollectRequests, Conclude, BeginTools,
           NoResult, ExecuteTool, RaiseInTool, EndTools
      <3>2. QED
        BY <3>1
    <2>5. QED
      BY <2>1, <2>2, <2>3, <2>4
  <1>3. ~AcceptTurn => turns' = turns
    BY <1>1 DEF Next, vars, turnVars, Validate, BeginRound, LoopExhausted, StopOnBudget,
       StartTurn, RetryTruncated, FailTurn, RaiseInCall, CollectRequests, Conclude,
       BeginTools, NoResult, ExecuteTool, RaiseInTool, EndTools
  <1>4. PriorIsEarlier'
    BY <1>1, <1>3, AcceptFooting DEF FootingInv, PriorIsEarlier
  <1>5. ASSUME ~AcceptTurn, ~ExecuteTool PROVE SeenIsEarlier'
    <2>1. Extends(toolCalls, toolCalls') /\ evidence' = evidence
      BY <1>1, <1>5, ToolCallsGrow DEF RunInv
    <2>2. \A k \in DOMAIN evidence : toolCalls'[evidence[k]] = toolCalls[evidence[k]]
      BY <1>1, <2>1 DEF RunInv, ItemsInv, Extends
    <2>3. QED
      BY <1>1, <1>3, <1>5, <2>1, <2>2 DEF FootingInv, SeenIsEarlier
  <1>6. SeenIsEarlier'
    BY <1>1, <1>5, AcceptFooting, ExecuteFooting
  <1>7. QED
    BY <1>2, <1>4, <1>6

LEMMA CountTo == ASSUME NEW n \in Nat PROVE IsFiniteSet(1..n) /\ Cardinality(1..n) = n
  BY FS_Interval

\* A set that a sequence lists without repetition has as many elements.
LEMMA ListedOnce ==
    ASSUME NEW n \in Nat, NEW T, NEW f \in [1..n -> T],
           \A a, b \in 1..n : f[a] = f[b] => a = b,
           \A x \in T : \E a \in 1..n : f[a] = x
    PROVE  Cardinality(T) = n
  <1>1. f \in Bijection(1..n, T)
    BY Fun_IsBij
  <1>2. IsFiniteSet(1..n) /\ Cardinality(1..n) = n
    BY CountTo
  <1>3. QED
    BY <1>1, <1>2, FS_Bijection DEF ExistsBijection

\* All agents of a round answer the same turns and the same tool results: those of
\* the rounds before (orchestrator.py:95, 109, 176-195).
THEOREM FootingIsTheSame == Spec => []SameFooting
  <1>1. Init => FootingInv
    BY DEF Init, FootingInv, CallsInRound, PriorIsEarlier, SeenIsEarlier
  <1>2. ASSUME RunInv, FootingInv, NEW i \in DOMAIN turns
        PROVE  turns[i].prior = Cardinality({j \in DOMAIN turns :
                                                turns[j].round < turns[i].round})
    <2>1. PICK n \in Nat, m \in Nat :
              n = Len(turns) /\ DOMAIN turns = 1..n /\ m = turns[i].prior /\ m <= n
      <3>1. turns \in Seq(TurnType) /\ turns[i].prior \in Nat
        BY <1>2, RecordedTypes DEF RunInv, TypeInv, TypeOK
      <3>2. QED
        BY <1>2, <3>1 DEF FootingInv, PriorIsEarlier
    <2>2. \A j \in 1..n : j <= m <=> turns[j].round < turns[i].round
      BY <1>2, <2>1 DEF FootingInv, PriorIsEarlier
    <2>3. 1..m = {j \in 1..n : j <= m}
      BY <2>1
    <2>4. {j \in DOMAIN turns : turns[j].round < turns[i].round} = 1..m
      BY <2>1, <2>2, <2>3
    <2>5. Cardinality(1..m) = m
      BY CountTo
    <2>6. QED
      BY <2>1, <2>4, <2>5
  <1>3. ASSUME RunInv, FootingInv, NEW i \in DOMAIN turns
        PROVE  turns[i].seen = Cardinality({c \in DOMAIN toolCalls :
                                               /\ toolCalls[c].status = "ok"
                                               /\ toolCalls[c].round < turns[i].round})
    <2> DEFINE T == {c \in DOMAIN toolCalls : /\ toolCalls[c].status = "ok"
                                              /\ toolCalls[c].round < turns[i].round}
    <2>1. PICK n \in Nat, m \in Nat :
              n = Len(evidence) /\ DOMAIN evidence = 1..n /\ m = turns[i].seen /\ m <= n
      <3>1. evidence \in Seq(Nat) /\ turns[i].seen \in Nat
        BY <1>3, RecordedTypes DEF RunInv, TypeInv, TypeOK
      <3>2. QED
        BY <1>3, <3>1 DEF FootingInv, SeenIsEarlier
    <2>2. PICK f : f = [k \in 1..m |-> evidence[k]]
      OBVIOUS
    <2>3. \A k \in 1..n : /\ evidence[k] \in DOMAIN toolCalls
                          /\ toolCalls[evidence[k]].item = k
                          /\ toolCalls[evidence[k]].status = "ok"
      BY <1>3, <2>1 DEF RunInv, ItemsInv
    <2>4. \A k \in 1..m : k \in 1..n /\ evidence[k] \in T
      BY <1>3, <2>1, <2>3 DEF FootingInv, SeenIsEarlier
    <2>5. f \in [1..m -> T]
      BY <2>2, <2>4
    <2>6. \A a, b \in 1..m : f[a] = f[b] => a = b
      BY <2>2, <2>3, <2>4
    <2>7. ASSUME NEW c \in T PROVE \E a \in 1..m : f[a] = c
      <3>1. toolCalls[c].item \in 1..n /\ evidence[toolCalls[c].item] = c
        BY <1>3, <2>1 DEF RunInv, ItemsInv
      <3>2. toolCalls[c].item <= m
        BY <1>3, <2>1, <3>1 DEF FootingInv, SeenIsEarlier
      <3>3. toolCalls[c].item \in 1..m
        BY <2>1, <3>1, <3>2
      <3>4. QED
        BY <2>2, <3>1, <3>3
    <2> HIDE DEF T
    <2>8. Cardinality(T) = m
      BY <2>5, <2>6, <2>7, ListedOnce
    <2>9. QED
      BY <2>1, <2>8 DEF T
  <1>4. RunInv /\ FootingInv => SameFooting
    BY <1>2, <1>3 DEF SameFooting
  <1>5. QED
    BY <1>1, <1>4, NextFooting, AlwaysRunInv, PTL DEF Spec
-----------------------------------------------------------------------------
(***************************************************************************)
(* What becomes of the requests.                                           *)
(***************************************************************************)
AskedIn(calls, q, role, request) ==
    \E c \in DOMAIN calls : /\ calls[c].round = q
                            /\ calls[c].request = request
                            /\ role \in calls[c].by

TurnAccounted(turn, calls) ==
    \A k \in DOMAIN turn.requests : AskedIn(calls, turn.round, turn.role, turn.requests[k])

Kept(asks, role, request) ==
    \E a \in DOMAIN asks : asks[a] = [role |-> role, request |-> request]

\* Each request of the turn is recorded, or kept to be executed.
TurnHeld(turn, q, calls, asks) ==
    \A k \in DOMAIN turn.requests : \/ AskedIn(calls, q, turn.role, turn.requests[k])
                                    \/ Kept(asks, turn.role, turn.requests[k])

LEMMA AskedStays ==
    ASSUME NEW s, NEW t, Extends(s, t), NEW q, NEW role, NEW request,
           AskedIn(s, q, role, request)
    PROVE  AskedIn(t, q, role, request)
  BY DEF AskedIn, Extends

LEMMA AccountedStays ==
    ASSUME NEW s, NEW t, Extends(s, t), NEW turn, TurnAccounted(turn, s)
    PROVE  TurnAccounted(turn, t)
  BY AskedStays DEF TurnAccounted

LEMMA HeldStays ==
    ASSUME NEW s, NEW t, Extends(s, t), NEW a, NEW b, Extends(a, b), NEW q,
           NEW turn, TurnHeld(turn, q, s, a)
    PROVE  TurnHeld(turn, q, t, b)
  BY AskedStays DEF TurnHeld, Kept, Extends

LEMMA SameExtends == \A s : Extends(s, s)
  BY DEF Extends

\* Where requests are collected, and which rounds count as completed.
Progress ==
    /\ roundsCompleted <= rnd
    /\ pc \in {"guard", "calling"} => roundsCompleted < rnd
    /\ pc \in {"validate", "round", "guard", "calling"} =>
           collected = 0 /\ requests = <<>> /\ served = {}
    /\ pc = "collect" => served = {}

\* The requests of the turns collected so far.
RoundsHeld ==
    \A i \in RoundTurns :
        (pc = "collect" /\ i <= prior + collected) \/ pc = "tools" =>
            TurnHeld(turns[i], rnd, toolCalls, requests)

ServedAsked ==
    \A a \in served : AskedIn(toolCalls, rnd, requests[a].role, requests[a].request)

\* Turn i is of a round that was completed.
Answerable(i) ==
    \/ turns[i].round < rnd
    \/ pc = "round"
    \/ pc = "returned" /\ turns[i].round <= roundsCompleted

TurnsAccounted ==
    \A i \in DOMAIN turns : Answerable(i) => TurnAccounted(turns[i], toolCalls)

AccountInv == Progress /\ RoundsHeld /\ ServedAsked /\ TurnsAccounted

\* Steps that leave turns, requests and tool calls alone.
LEMMA AccountKept ==
    ASSUME RunInv, AccountInv,
           UNCHANGED <<turns, prior, rnd, roundsCompleted, collected, requests, served,
                       toolCalls>>,
           \/ pc' = pc \/ pc' = "raised"
           \/ <<pc, pc'>> \in {<<"validate", "round">>, <<"validate", "returned">>,
                               <<"round", "returned">>, <<"guard", "returned">>,
                               <<"guard", "calling">>, <<"calling", "returned">>}
           \/ <<pc, pc'>> = <<"collect", "tools">> /\ collected = Speakers
    PROVE  AccountInv'
  <1>1. rnd \in Nat /\ roundsCompleted \in Nat /\ prior \in Nat
        /\ \A i \in DOMAIN turns : turns[i].round \in Nat
    BY RecordedTypes DEF RunInv, TypeInv, TypeOK
  <1>2. Progress'
    BY DEF AccountInv, Progress
  <1>3. RoundsHeld'
    <2>1. RoundTurns' = RoundTurns
      BY DEF RoundTurns
    <2>2. ASSUME NEW i \in RoundTurns, pc = "collect", collected = Speakers
          PROVE  i <= prior + collected
      <3>1. Len(turns) = prior + collected /\ i \in (prior + 1)..Len(turns)
        BY <2>2 DEF RunInv, RoundsInv, Place, RoundTurns
      <3>2. QED
        BY <3>1
    <2>3. QED
      BY <2>1, <2>2 DEF AccountInv, RoundsHeld
  <1>4. ServedAsked'
    BY DEF AccountInv, ServedAsked
  <1>5. TurnsAccounted'
    <2>1. CASE pc = "validate"
      <3>1. DOMAIN turns = {}
        BY <2>1 DEF RunInv, RoundsInv, Place
      <3>2. QED
        BY <3>1 DEF TurnsAccounted
    <2>2. CASE pc # "validate"
      <3>1. SUFFICES ASSUME NEW i \in DOMAIN turns, Answerable(i)' PROVE Answerable(i)
        BY DEF AccountInv, TurnsAccounted
      <3>2. QED
        BY <1>1, <2>2, <3>1 DEF Answerable, AccountInv, Progress
    <2>3. QED
      BY <2>1, <2>2
  <1>6. QED
    BY <1>2, <1>3, <1>4, <1>5 DEF AccountInv

LEMMA AccountBegin == RunInv /\ AccountInv /\ BeginRound => AccountInv'
  <1>1. SUFFICES ASSUME RunInv, AccountInv, BeginRound PROVE AccountInv'
    OBVIOUS
  <1>2. /\ pc = "round" /\ pc' = "guard" /\ rnd' = rnd + 1 /\ rnd \in Nat
        /\ roundsCompleted \in Nat /\ served' = {}
        /\ UNCHANGED <<turns, roundsCompleted, collected, requests, served, toolCalls>>
    BY <1>1 DEF BeginRound, requestVars, toolVars, RunInv, TypeInv, TypeOK, AccountInv,
       Progress
  <1>3. Progress' /\ RoundsHeld' /\ ServedAsked'
    BY <1>1, <1>2 DEF AccountInv, Progress, RoundsHeld, ServedAsked
  <1>4. TurnsAccounted'
    BY <1>1, <1>2 DEF AccountInv, TurnsAccounted, Answerable
  <1>5. QED
    BY <1>3, <1>4 DEF AccountInv

LEMMA AccountAccept == RunInv /\ AccountInv /\ AcceptTurn => AccountInv'
  <1>1. SUFFICES ASSUME RunInv, AccountInv, AcceptTurn PROVE AccountInv'
    OBVIOUS
  <1>2. PICK draft \in Drafts : turns' = Append(turns, Turn(draft))
    BY <1>1 DEF AcceptTurn
  <1>3. PICK t \in TurnType : turns' = Append(turns, t) /\ t.round = rnd
    BY <1>1, <1>2, TurnIsTyped DEF AcceptTurn, Turn, RunInv
  <1>4. PICK n \in Nat : n = Len(turns)
    BY <1>1 DEF RunInv, TypeInv, TypeOK
  <1>5. /\ turns \in Seq(TurnType) /\ prior \in 0..n /\ rnd \in Nat /\ roundsCompleted \in Nat
        /\ pc = "calling" /\ pc' \in {"collect", "guard"}
        /\ pc' = "collect" => roundsCompleted' = rnd
        /\ pc' = "guard" => roundsCompleted' = roundsCompleted
        /\ UNCHANGED <<toolCalls, collected, requests, served, rnd, prior>>
        /\ collected = 0 /\ served = {} /\ requests = <<>> /\ roundsCompleted < rnd
    BY <1>1, <1>4 DEF RunInv, TypeInv, TypeOK, AcceptTurn, toolVars, requestVars, AccountInv,
       Progress
  <1>6. /\ DOMAIN turns = 1..n /\ DOMAIN turns' = 1..(n + 1) /\ Len(turns') = n + 1
        /\ turns'[n + 1] = t /\ \A i \in 1..n : turns'[i] = turns[i]
    <2>1. /\ DOMAIN turns = 1..n /\ DOMAIN Append(turns, t) = 1..(n + 1)
          /\ Len(Append(turns, t)) = n + 1
          /\ Append(turns, t)[n + 1] = t /\ \A i \in 1..n : Append(turns, t)[i] = turns[i]
      BY <1>4, <1>5, OneAppended
    <2>2. QED
      BY <1>3, <2>1
  <1>7. Progress'
    BY <1>5 DEF Progress
  <1>8. RoundsHeld'
    <2>1. \A i \in RoundTurns' : ~(i <= prior' + collected')
      <3>1. RoundTurns' = (prior + 1)..(n + 1)
        BY <1>5, <1>6 DEF RoundTurns
      <3>2. QED
        BY <1>5, <3>1
    <2>2. QED
      BY <1>5, <2>1 DEF RoundsHeld
  <1>9. ServedAsked'
    BY <1>5 DEF ServedAsked
  <1>10. TurnsAccounted'
    <2>1. SUFFICES ASSUME NEW i \in 1..(n + 1), turns'[i].round < rnd
                   PROVE  TurnAccounted(turns'[i], toolCalls)
      BY <1>5, <1>6 DEF TurnsAccounted, Answerable
    <2>2. i \in 1..n
      <3>1. i # n + 1
        BY <1>3, <1>5, <1>6, <2>1
      <3>2. QED
        BY <3>1
    <2>3. QED
      BY <1>1, <1>6, <2>1, <2>2 DEF AccountInv, TurnsAccounted, Answerable
  <1>11. QED
    BY <1>7, <1>8, <1>9, <1>10 DEF AccountInv

LEMMA AccountCollect == RunInv /\ AccountInv /\ CollectRequests => AccountInv'
  <1>1. SUFFICES ASSUME RunInv, AccountInv, CollectRequests PROVE AccountInv'
    OBVIOUS
  <1> DEFINE turn == turns[prior + collected + 1]
  <1>2. PICK asks \in Seq(AskType), skips \in Seq(ToolCallType) :
            /\ requests' = requests \o asks /\ toolCalls' = toolCalls \o skips
            /\ \A c \in DOMAIN skips : skips[c].round = rnd /\ skips[c].by = {turn.role}
            /\ \A k \in DOMAIN turn.requests :
                   \/ \E c \in DOMAIN skips : skips[c].request = turn.requests[k]
                   \/ \E a \in DOMAIN asks :
                          asks[a] = [role |-> turn.role, request |-> turn.requests[k]]
    BY <1>1, CollectAppends DEF RunInv
  <1> HIDE DEF turn
  <1>3. /\ pc = "collect" /\ collected' = collected + 1 /\ served = {} /\ collected \in Nat
        /\ prior \in Nat /\ toolCalls \in Seq(ToolCallType) /\ requests \in Seq(AskType)
        /\ rnd \in Nat /\ turns \in Seq(TurnType)
        /\ UNCHANGED <<pc, turns, prior, rnd, roundsCompleted, served>>
    BY <1>1, RoleCount DEF CollectRequests, lifeVars, turnVars, RunInv, TypeInv, TypeOK,
       AccountInv, Progress
  <1>4. Extends(toolCalls, toolCalls') /\ Extends(requests, requests')
    <2>1. Extends(toolCalls, toolCalls \o skips) /\ Extends(requests, requests \o asks)
      BY <1>3, Concatenated
    <2>2. QED
      BY <1>2, <2>1
  <1>5. Progress'
    BY <1>1, <1>3 DEF AccountInv, Progress
  <1>6. TurnHeld(turn, rnd, toolCalls \o skips, requests \o asks)
    <2>1. \A c \in DOMAIN skips : \E d \in DOMAIN (toolCalls \o skips) :
                                      (toolCalls \o skips)[d] = skips[c]
      <3>1. toolCalls \in Seq(ToolCallType)
        BY <1>3
      <3>2. QED
        BY <3>1, Concatenated
    <2>2. \A a \in DOMAIN asks : \E d \in DOMAIN (requests \o asks) :
                                     (requests \o asks)[d] = asks[a]
      BY <1>3, Concatenated
    <2>3. ASSUME NEW k \in DOMAIN turn.requests
          PROVE  \/ AskedIn(toolCalls \o skips, rnd, turn.role, turn.requests[k])
                 \/ Kept(requests \o asks, turn.role, turn.requests[k])
      <3>1. CASE \E c \in DOMAIN skips : skips[c].request = turn.requests[k]
        BY <1>2, <2>1, <3>1 DEF AskedIn
      <3>2. CASE \E a \in DOMAIN asks :
                     asks[a] = [role |-> turn.role, request |-> turn.requests[k]]
        BY <2>2, <3>2 DEF Kept
      <3>3. QED
        BY <1>2, <3>1, <3>2
    <2>4. QED
      BY <2>3 DEF TurnHeld
  <1>7. RoundsHeld'
    <2>1. SUFFICES ASSUME NEW i \in RoundTurns, i <= prior + (collected + 1)
                   PROVE  TurnHeld(turns[i], rnd, toolCalls', requests')
      BY <1>3 DEF RoundsHeld, RoundTurns
    <2>2. i \in Int
      BY DEF RoundTurns
    <2>3. CASE i <= prior + collected
      BY <1>1, <1>3, <1>4, <2>3, HeldStays DEF AccountInv, RoundsHeld
    <2>4. CASE i = prior + collected + 1
      BY <1>2, <1>6, <2>4 DEF turn
    <2>5. QED
      BY <1>3, <2>1, <2>2, <2>3, <2>4
  <1>8. ServedAsked'
    BY <1>3 DEF ServedAsked
  <1>9. TurnsAccounted'
    <2>1. SUFFICES ASSUME NEW i \in DOMAIN turns, Answerable(i)
                   PROVE  TurnAccounted(turns[i], toolCalls')
      BY <1>3 DEF TurnsAccounted, Answerable
    <2>2. QED
      BY <1>1, <1>4, <2>1, AccountedStays DEF AccountInv, TurnsAccounted
  <1>10. QED
    BY <1>5, <1>7, <1>8, <1>9 DEF AccountInv

LEMMA AccountConclude == RunInv /\ AccountInv /\ Conclude => AccountInv'
  <1>1. SUFFICES ASSUME RunInv, AccountInv, Conclude PROVE AccountInv'
    OBVIOUS
  <1>2. PICK skips \in Seq(ToolCallType) :
            /\ toolCalls' = toolCalls \o skips
            /\ \A c \in DOMAIN skips : skips[c].round = rnd
            /\ \A a \in DOMAIN requests :
                   \E c \in DOMAIN skips : /\ skips[c].request = requests[a].request
                                           /\ skips[c].by = {requests[a].role}
    BY <1>1, ConcludeAppends DEF RunInv
  <1>3. /\ pc = "collect" /\ pc' \in {"returned", "raised"} /\ collected = Speakers /\ served = {}
        /\ prior \in Nat /\ toolCalls \in Seq(ToolCallType) /\ rnd \in Nat
        /\ turns \in Seq(TurnType) /\ roundsCompleted \in Nat /\ Speakers \in Nat
        /\ UNCHANGED <<turns, prior, rnd, roundsCompleted, collected, requests, served>>
    BY <1>1, RoleCount DEF Conclude, Finish, turnVars, requestVars, RunInv, TypeInv, TypeOK,
       AccountInv, Progress, Speakers
  <1>4. Extends(toolCalls, toolCalls')
    <2>1. Extends(toolCalls, toolCalls \o skips)
      BY <1>3, Concatenated
    <2>2. QED
      BY <1>2, <2>1
  <1>5. Progress' /\ RoundsHeld' /\ ServedAsked'
    BY <1>1, <1>3 DEF AccountInv, Progress, RoundsHeld, ServedAsked
  <1>6. ASSUME NEW role, NEW request, Kept(requests, role, request)
        PROVE  AskedIn(toolCalls', rnd, role, request)
    <2>1. PICK a \in DOMAIN requests : requests[a] = [role |-> role, request |-> request]
      BY <1>6 DEF Kept
    <2>2. PICK c \in DOMAIN skips : skips[c].request = request /\ skips[c].by = {role}
      <3>1. requests[a].request = request /\ requests[a].role = role
        BY <2>1
      <3>2. QED
        BY <1>2, <3>1
    <2>3. PICK d \in DOMAIN (toolCalls \o skips) : (toolCalls \o skips)[d] = skips[c]
      <3>1. toolCalls \in Seq(ToolCallType)
        BY <1>3
      <3>2. QED
        BY <3>1, Concatenated
    <2>4. QED
      BY <1>2, <2>2, <2>3 DEF AskedIn
  <1>7. TurnsAccounted'
    <2>1. SUFFICES ASSUME NEW i \in DOMAIN turns
                   PROVE  TurnAccounted(turns[i], toolCalls')
      BY <1>3 DEF TurnsAccounted
    <2>2. turns[i].round \in 1..rnd /\ (i <= prior => turns[i].round < rnd)
      BY <1>1 DEF RunInv, RoundsInv, RoundNumbers
    <2>3. CASE turns[i].round < rnd
      BY <1>1, <1>4, <2>3, AccountedStays DEF AccountInv, TurnsAccounted, Answerable
    <2>4. CASE ~(turns[i].round < rnd)
      <3>1. turns[i].round = rnd /\ ~(i <= prior) /\ Len(turns) = prior + Speakers
        BY <1>1, <1>3, <2>2, <2>4 DEF RunInv, RoundsInv, Place
      <3>2. i \in RoundTurns /\ i <= prior + collected
        BY <1>3, <3>1 DEF RoundTurns
      <3>3. TurnHeld(turns[i], rnd, toolCalls, requests)
        BY <1>1, <1>3, <3>2 DEF AccountInv, RoundsHeld
      <3>4. QED
        BY <1>4, <1>6, <3>1, <3>3, AskedStays DEF TurnHeld, TurnAccounted
    <2>5. QED
      BY <2>3, <2>4
  <1>8. QED
    BY <1>5, <1>7 DEF AccountInv

\* A group is recorded in the name of all who asked for it.
LEMMA AccountGroup ==
    ASSUME RunInv, AccountInv, NEW x \in ToolCallType,
           pc = "tools", toolCalls' = Append(toolCalls, x), served' = served \cup Group,
           x.round = rnd, x.by = GroupRoles, x.request = GroupRequest,
           UNCHANGED <<pc, turns, prior, rnd, roundsCompleted, collected, requests>>
    PROVE  AccountInv'
  <1>1. toolCalls \in Seq(ToolCallType)
    BY DEF RunInv, TypeInv, TypeOK
  <1>2. PICK n \in Nat : n = Len(toolCalls)
    BY <1>1
  <1>3. /\ DOMAIN toolCalls = 1..n /\ DOMAIN toolCalls' = 1..(n + 1) /\ toolCalls'[n + 1] = x
        /\ \A c \in 1..n : toolCalls'[c] = toolCalls[c]
    <2>1. /\ DOMAIN toolCalls = 1..n /\ DOMAIN Append(toolCalls, x) = 1..(n + 1)
          /\ Append(toolCalls, x)[n + 1] = x
          /\ \A c \in 1..n : Append(toolCalls, x)[c] = toolCalls[c]
      BY <1>1, <1>2, OneAppended
    <2>2. QED
      BY <2>1
  <1>4. Extends(toolCalls, toolCalls')
    BY <1>3 DEF Extends
  <1>5. Progress'
    BY DEF AccountInv, Progress
  <1>6. RoundsHeld'
    <2>1. SUFFICES ASSUME NEW i \in RoundTurns
                   PROVE  TurnHeld(turns[i], rnd, toolCalls', requests)
      BY DEF RoundsHeld, RoundTurns
    <2>2. TurnHeld(turns[i], rnd, toolCalls, requests)
      BY DEF AccountInv, RoundsHeld
    <2>3. QED
      BY <1>4, <2>2, HeldStays, SameExtends
  <1>7. ServedAsked'
    <2>1. SUFFICES ASSUME NEW a \in served \cup Group
                   PROVE  AskedIn(toolCalls', rnd, requests[a].role, requests[a].request)
      BY DEF ServedAsked
    <2>2. CASE a \in served
      BY <1>4, <2>2, AskedStays DEF AccountInv, ServedAsked
    <2>3. CASE a \in Group
      <3>1. requests[a].role \in GroupRoles /\ requests[a].request = GroupRequest
        BY <2>3 DEF GroupRoles, GroupRequest, Group, DedupeKey
      <3>2. n + 1 \in DOMAIN toolCalls'
        BY <1>3
      <3>3. QED
        BY <1>3, <3>1, <3>2 DEF AskedIn
    <2>4. QED
      BY <2>2, <2>3
  <1>8. TurnsAccounted'
    <2>1. SUFFICES ASSUME NEW i \in DOMAIN turns, Answerable(i)
                   PROVE  TurnAccounted(turns[i], toolCalls')
      BY DEF TurnsAccounted, Answerable
    <2>2. QED
      BY <1>4, <2>1, AccountedStays DEF AccountInv, TurnsAccounted
  <1>9. QED
    BY <1>5, <1>6, <1>7, <1>8 DEF AccountInv

LEMMA ToolsAppend ==
    ASSUME TypeInv, NoResult \/ ExecuteTool
    PROVE  \E x \in ToolCallType : /\ toolCalls' = Append(toolCalls, x)
                                   /\ x.round = rnd /\ x.by = GroupRoles
                                   /\ x.request = GroupRequest
  <1>1. PICK x : /\ toolCalls' = Append(toolCalls, x)
                 /\ \/ x = Record(GroupRoles, GroupRequest, WithoutResult, 0)
                    \/ x = Record(GroupRoles, GroupRequest, "ok", Len(evidence) + 1)
    BY DEF NoResult, ExecuteTool
  <1>2. x \in ToolCallType
    BY <1>1, RecordIsTyped DEF NoResult, ExecuteTool
  <1>3. QED
    BY <1>1, <1>2 DEF Record

LEMMA AccountTools == RunInv /\ AccountInv /\ (NoResult \/ ExecuteTool) => AccountInv'
  <1>1. SUFFICES ASSUME RunInv, AccountInv, NoResult \/ ExecuteTool PROVE AccountInv'
    OBVIOUS
  <1>2. /\ pc = "tools" /\ served' = served \cup Group /\ Waiting # {}
        /\ UNCHANGED <<pc, turns, prior, rnd, roundsCompleted, collected, requests>>
    BY <1>1 DEF NoResult, ExecuteTool, lifeVars, turnVars
  <1>3. PICK x \in ToolCallType : /\ toolCalls' = Append(toolCalls, x)
                                  /\ x.round = rnd /\ x.by = GroupRoles
                                  /\ x.request = GroupRequest
    BY <1>1, ToolsAppend DEF RunInv
  <1>4. QED
    BY <1>1, <1>2, <1>3, AccountGroup

LEMMA AccountEnd == RunInv /\ AccountInv /\ EndTools => AccountInv'
  <1>1. SUFFICES ASSUME RunInv, AccountInv, EndTools PROVE AccountInv'
    OBVIOUS
  <1>2. /\ pc = "tools" /\ pc' = "round" /\ served = DOMAIN requests
        /\ collected' = 0 /\ requests' = <<>> /\ served' = {}
        /\ rnd \in Nat /\ turns \in Seq(TurnType) /\ prior \in Nat
        /\ UNCHANGED <<turns, prior, rnd, roundsCompleted, toolCalls>>
    <2>1. /\ pc = "tools" /\ pc' = "round" /\ DOMAIN requests \ served = {}
          /\ collected' = 0 /\ requests' = <<>> /\ served' = {}
          /\ UNCHANGED <<turns, prior, rnd, roundsCompleted, toolCalls>>
      BY <1>1 DEF EndTools, turnVars, toolVars, Waiting
    <2>2. /\ rnd \in Nat /\ turns \in Seq(TurnType) /\ prior \in Nat
          /\ served \subseteq DOMAIN requests
      BY <1>1 DEF RunInv, TypeInv, TypeOK
    <2>3. QED
      BY <2>1, <2>2
  <1>3. Progress' /\ RoundsHeld' /\ ServedAsked'
    BY <1>1, <1>2 DEF AccountInv, Progress, RoundsHeld, ServedAsked
  <1>4. ASSUME NEW role, NEW request, Kept(requests, role, request)
        PROVE  AskedIn(toolCalls, rnd, role, request)
    BY <1>1, <1>2, <1>4 DEF Kept, AccountInv, ServedAsked
  <1>5. TurnsAccounted'
    <2>1. SUFFICES ASSUME NEW i \in DOMAIN turns
                   PROVE  TurnAccounted(turns[i], toolCalls)
      BY <1>2 DEF TurnsAccounted
    <2>2. turns[i].round \in 1..rnd /\ (i <= prior => turns[i].round < rnd)
      BY <1>1 DEF RunInv, RoundsInv, RoundNumbers
    <2>3. CASE turns[i].round < rnd
      BY <1>1, <2>3 DEF AccountInv, TurnsAccounted, Answerable
    <2>4. CASE ~(turns[i].round < rnd)
      <3>1. turns[i].round = rnd /\ i \in RoundTurns
        BY <1>2, <2>2, <2>4 DEF RoundTurns
      <3>2. TurnHeld(turns[i], rnd, toolCalls, requests)
        BY <1>1, <1>2, <3>1 DEF AccountInv, RoundsHeld
      <3>3. QED
        BY <1>4, <3>1, <3>2 DEF TurnHeld, TurnAccounted
    <2>5. QED
      BY <2>3, <2>4
  <1>6. QED
    BY <1>3, <1>5 DEF AccountInv

LEMMA NextAccount == RunInv /\ AccountInv /\ [Next]_vars => AccountInv'
  <1>1. SUFFICES ASSUME RunInv, AccountInv, [Next]_vars, ~BeginRound, ~AcceptTurn,
                        ~CollectRequests, ~Conclude, ~NoResult, ~ExecuteTool, ~EndTools
                 PROVE  AccountInv'
    BY AccountBegin, AccountAccept, AccountCollect, AccountConclude, AccountTools, AccountEnd
  <1>2. UNCHANGED <<turns, prior, rnd, roundsCompleted, collected, requests, served, toolCalls>>
    BY <1>1 DEF Next, vars, lifeVars, turnVars, requestVars, toolVars, Validate,
       LoopExhausted, StopOnBudget, StartTurn, RetryTruncated, FailTurn, RaiseInCall,
       BeginTools, RaiseInTool
  <1>3. \/ pc' = pc \/ pc' = "raised"
        \/ <<pc, pc'>> \in {<<"validate", "round">>, <<"validate", "returned">>,
                            <<"round", "returned">>, <<"guard", "returned">>,
                            <<"guard", "calling">>, <<"calling", "returned">>}
        \/ <<pc, pc'>> = <<"collect", "tools">> /\ collected = Speakers
    BY <1>1 DEF Next, vars, lifeVars, Validate, LoopExhausted, StopOnBudget, Finish,
       StartTurn, RetryTruncated, FailTurn, RaiseInCall, BeginTools, RaiseInTool, Speakers
  <1>4. QED
    BY <1>1, <1>2, <1>3, AccountKept
-----------------------------------------------------------------------------
(***************************************************************************)
(* A group runs once.                                                      *)
(***************************************************************************)
RanCall(x) == x.status \in {"ok", "error"} /\ x.request \notin BadArguments

\* Equal requests of a round are in the same group.
GroupsServed ==
    \A a \in served, b \in DOMAIN requests :
        DedupeKey(requests[a]) = DedupeKey(requests[b]) => b \in served

NoneRanYet ==
    pc = "collect" => \A c \in DOMAIN toolCalls : Ran(c) => toolCalls[c].round < rnd

\* What ran in this round ran for a group that is served.
RanForServed ==
    pc = "tools" =>
        \A c \in DOMAIN toolCalls : Ran(c) /\ toolCalls[c].round = rnd =>
            \E a \in served : /\ requests[a].request = toolCalls[c].request
                              /\ toolCalls[c].request \in RoleSensitive =>
                                     toolCalls[c].by = {requests[a].role}

SharedInv == SharedOnce /\ GroupsServed /\ NoneRanYet /\ RanForServed

\* What is skipped does not run: only the tools phase adds a call that ran.
LEMMA OnlyToolsRun ==
    ASSUME TypeInv, [Next]_vars, ~NoResult, ~ExecuteTool
    PROVE  \A c \in DOMAIN toolCalls' :
               RanCall(toolCalls'[c]) => /\ c \in DOMAIN toolCalls
                                         /\ toolCalls'[c] = toolCalls[c]
  <1>1. toolCalls \in Seq(ToolCallType)
    BY DEF TypeInv, TypeOK
  <1>2. ASSUME NEW skips \in Seq(ToolCallType), toolCalls' = toolCalls \o skips,
               \A c \in DOMAIN skips : ~RanCall(skips[c]),
               NEW c \in DOMAIN toolCalls', RanCall(toolCalls'[c])
        PROVE  c \in DOMAIN toolCalls /\ toolCalls'[c] = toolCalls[c]
    <2>1. /\ Extends(toolCalls, toolCalls \o skips)
          /\ \A i \in DOMAIN (toolCalls \o skips) :
                 i \in DOMAIN toolCalls \/ \E k \in DOMAIN skips :
                                               (toolCalls \o skips)[i] = skips[k]
      BY <1>1, Concatenated
    <2>2. QED
      BY <1>2, <2>1 DEF Extends
  <1>3. CASE CollectRequests
    <2>1. PICK skips \in Seq(ToolCallType) :
              /\ toolCalls' = toolCalls \o skips
              /\ \A c \in DOMAIN skips : skips[c].status = "skipped_budget"
      BY <1>3, CollectAppends
    <2>2. \A c \in DOMAIN skips : ~RanCall(skips[c])
      BY <2>1 DEF RanCall
    <2>3. QED
      BY <1>2, <2>1, <2>2
  <1>4. CASE Conclude
    <2>1. PICK skips \in Seq(ToolCallType) :
              /\ toolCalls' = toolCalls \o skips
              /\ \A c \in DOMAIN skips : skips[c].status = "skipped_final_round"
      BY <1>4, ConcludeAppends
    <2>2. \A c \in DOMAIN skips : ~RanCall(skips[c])
      BY <2>1 DEF RanCall
    <2>3. QED
      BY <1>2, <2>1, <2>2
  <1>5. CASE ~CollectRequests /\ ~Conclude
    <2>1. toolCalls' = toolCalls
      BY <1>5 DEF Next, vars, toolVars, Validate, BeginRound, LoopExhausted, StopOnBudget,
         StartTurn, RetryTruncated, AcceptTurn, FailTurn, RaiseInCall, BeginTools,
         RaiseInTool, EndTools
    <2>2. QED
      BY <2>1
  <1>6. QED
    BY <1>3, <1>4, <1>5

LEMMA SharedOnceStays ==
    ASSUME SharedOnce,
           \A c \in DOMAIN toolCalls' :
               RanCall(toolCalls'[c]) => c \in DOMAIN toolCalls /\ toolCalls'[c] = toolCalls[c]
    PROVE  SharedOnce'
  <1>1. SUFFICES ASSUME NEW c \in DOMAIN toolCalls', NEW d \in DOMAIN toolCalls',
                        RanCall(toolCalls'[c]), RanCall(toolCalls'[d])
                 PROVE  /\ toolCalls'[c].request \in RoleSensitive =>
                               Cardinality(toolCalls'[c].by) = 1
                        /\ /\ c # d
                           /\ toolCalls'[c].round = toolCalls'[d].round
                           /\ toolCalls'[c].request = toolCalls'[d].request
                           => /\ toolCalls'[c].request \in RoleSensitive
                              /\ toolCalls'[c].by # toolCalls'[d].by
    BY DEF SharedOnce, Ran, RanCall
  <1>2. /\ c \in DOMAIN toolCalls /\ toolCalls'[c] = toolCalls[c]
        /\ d \in DOMAIN toolCalls /\ toolCalls'[d] = toolCalls[d]
    BY <1>1
  <1>3. Ran(c) /\ Ran(d)
    BY <1>1, <1>2 DEF Ran, RanCall
  <1>4. QED
    BY <1>2, <1>3 DEF SharedOnce

LEMMA SharedOthers ==
    ASSUME RunInv, FootingInv, AccountInv, SharedInv, [Next]_vars, ~NoResult, ~ExecuteTool
    PROVE  SharedInv'
  <1>1. \A c \in DOMAIN toolCalls' :
            RanCall(toolCalls'[c]) => c \in DOMAIN toolCalls /\ toolCalls'[c] = toolCalls[c]
    BY OnlyToolsRun DEF RunInv
  <1>2. SharedOnce'
    BY <1>1, SharedOnceStays DEF SharedInv
  <1>3. GroupsServed'
    <2>1. served' = {} \/ UNCHANGED <<served, requests>>
      <3>1. CollectRequests => served' = {}
        BY DEF CollectRequests, AccountInv, Progress
      <3>2. EndTools => served' = {}
        BY DEF EndTools
      <3>3. ~CollectRequests /\ ~EndTools => UNCHANGED <<served, requests>>
        BY DEF Next, vars, requestVars, Validate, BeginRound, LoopExhausted, StopOnBudget,
           StartTurn, RetryTruncated, AcceptTurn, FailTurn, RaiseInCall, Conclude,
           BeginTools, RaiseInTool
      <3>4. QED
        BY <3>1, <3>2, <3>3
    <2>2. CASE served' = {}
      BY <2>2 DEF GroupsServed
    <2>3. CASE UNCHANGED <<served, requests>>
      BY <2>3 DEF SharedInv, GroupsServed, DedupeKey
    <2>4. QED
      BY <2>1, <2>2, <2>3
  <1>4. NoneRanYet'
    <2>1. pc' = "collect" => (pc = "collect" \/ pc = "calling") /\ rnd' = rnd
      BY DEF Next, vars, lifeVars, Validate, BeginRound, LoopExhausted, StopOnBudget, Finish,
         StartTurn, RetryTruncated, AcceptTurn, FailTurn, RaiseInCall, CollectRequests,
         Conclude, BeginTools, RaiseInTool, EndTools
    <2>2. ASSUME NEW c \in DOMAIN toolCalls, pc = "collect" \/ pc = "calling",
                 RanCall(toolCalls[c])
          PROVE  toolCalls[c].round < rnd
      BY <2>2 DEF SharedInv, NoneRanYet, FootingInv, CallsInRound, Ran, RanCall
    <2>3. QED
      BY <1>1, <2>1, <2>2 DEF NoneRanYet, Ran, RanCall
  <1>5. RanForServed'
    <2>1. pc' = "tools" => (pc = "collect" \/ pc = "tools") /\ rnd' = rnd
                           /\ UNCHANGED <<served, requests>>
      BY DEF Next, vars, lifeVars, requestVars, Validate, BeginRound, LoopExhausted,
         StopOnBudget, Finish, StartTurn, RetryTruncated, AcceptTurn, FailTurn, RaiseInCall,
         CollectRequests, Conclude, BeginTools, RaiseInTool, EndTools
    <2>2. SUFFICES ASSUME pc' = "tools", NEW c \in DOMAIN toolCalls',
                          RanCall(toolCalls'[c]), toolCalls'[c].round = rnd
                   PROVE  \E a \in served :
                              /\ requests[a].request = toolCalls'[c].request
                              /\ toolCalls'[c].request \in RoleSensitive =>
                                     toolCalls'[c].by = {requests[a].role}
      BY <2>1 DEF RanForServed, Ran, RanCall
    <2>3. c \in DOMAIN toolCalls /\ toolCalls'[c] = toolCalls[c] /\ Ran(c)
      BY <1>1, <2>2 DEF Ran, RanCall
    <2>4. pc # "collect"
      <3>1. rnd \in Nat
        BY DEF RunInv, TypeInv, TypeOK
      <3>2. QED
        BY <2>2, <2>3, <3>1 DEF SharedInv, NoneRanYet
    <2>5. QED
      BY <2>1, <2>2, <2>3, <2>4 DEF SharedInv, RanForServed
  <1>6. QED
    BY <1>2, <1>3, <1>4, <1>5 DEF SharedInv

\* Whose request it was does not matter to the key, unless the tool depends on it.
LEMMA SameKey ==
    ASSUME NEW a, NEW b
    PROVE  DedupeKey(a) = DedupeKey(b) <=> /\ a.request = b.request
                                           /\ a.request \in RoleSensitive => a.role = b.role
  BY DEF DedupeKey

LEMMA SharedGroup ==
    ASSUME RunInv, SharedInv, NEW x \in ToolCallType, Waiting # {},
           pc = "tools", toolCalls' = Append(toolCalls, x), served' = served \cup Group,
           x.round = rnd, x.by = GroupRoles, x.request = GroupRequest,
           UNCHANGED <<pc, rnd, requests>>
    PROVE  SharedInv'
  <1>1. toolCalls \in Seq(ToolCallType) /\ DOMAIN requests \in SUBSET Nat
    BY DEF RunInv, TypeInv, TypeOK
  <1>2. PICK n \in Nat : n = Len(toolCalls)
    BY <1>1
  <1>3. /\ DOMAIN toolCalls = 1..n /\ DOMAIN toolCalls' = 1..(n + 1) /\ toolCalls'[n + 1] = x
        /\ \A c \in 1..n : toolCalls'[c] = toolCalls[c]
    <2>1. /\ DOMAIN toolCalls = 1..n /\ DOMAIN Append(toolCalls, x) = 1..(n + 1)
          /\ Append(toolCalls, x)[n + 1] = x
          /\ \A c \in 1..n : Append(toolCalls, x)[c] = toolCalls[c]
      BY <1>1, <1>2, OneAppended
    <2>2. QED
      BY <2>1
  <1>4. PICK lead : /\ lead \in Waiting /\ GroupRequest = requests[lead].request
                    /\ Group = {i \in Waiting :
                                    DedupeKey(requests[i]) = DedupeKey(requests[lead])}
    <2>1. Least(Waiting) \in Waiting
      BY <1>1, LeastIsMember DEF Waiting
    <2>2. QED
      BY <2>1 DEF Group, GroupRequest
  <1>5. lead \in Group /\ lead \in DOMAIN requests /\ lead \notin served
    BY <1>4 DEF Waiting
  <1>6. GroupRequest \in RoleSensitive => GroupRoles = {requests[lead].role}
    <2>1. ASSUME GroupRequest \in RoleSensitive, NEW i \in Group
          PROVE  requests[i].role = requests[lead].role
      BY <1>4, <2>1, SameKey
    <2>2. QED
      BY <1>5, <2>1 DEF GroupRoles
  <1>7. GroupsServed'
    <2>1. SUFFICES ASSUME NEW a \in served \cup Group, NEW b \in DOMAIN requests,
                          DedupeKey(requests[a]) = DedupeKey(requests[b])
                   PROVE  b \in served \cup Group
      BY DEF GroupsServed, DedupeKey
    <2>2. CASE a \in served
      BY <2>1, <2>2 DEF SharedInv, GroupsServed
    <2>3. CASE a \in Group
      BY <1>4, <2>1, <2>3 DEF Waiting
    <2>4. QED
      BY <2>1, <2>2, <2>3
  <1>8. NoneRanYet'
    BY DEF NoneRanYet
  <1>9. ASSUME NEW c \in 1..n, RanCall(toolCalls[c]), toolCalls[c].round = rnd
        PROVE  \E a \in served : /\ requests[a].request = toolCalls[c].request
                                 /\ toolCalls[c].request \in RoleSensitive =>
                                        toolCalls[c].by = {requests[a].role}
    BY <1>3, <1>9 DEF SharedInv, RanForServed, Ran, RanCall
  <1>10. RanForServed'
    <2>1. SUFFICES ASSUME NEW c \in 1..(n + 1), RanCall(toolCalls'[c]),
                          toolCalls'[c].round = rnd
                   PROVE  \E a \in served \cup Group :
                              /\ requests[a].request = toolCalls'[c].request
                              /\ toolCalls'[c].request \in RoleSensitive =>
                                     toolCalls'[c].by = {requests[a].role}
      BY <1>3 DEF RanForServed, Ran, RanCall
    <2>2. CASE c \in 1..n
      BY <1>3, <1>9, <2>1, <2>2
    <2>3. CASE c = n + 1
      <3>1. /\ toolCalls'[c].request = requests[lead].request
            /\ toolCalls'[c].request = GroupRequest /\ toolCalls'[c].by = GroupRoles
        BY <1>3, <1>4, <2>3
      <3>2. lead \in served \cup Group
        BY <1>5
      <3>3. QED
        BY <1>6, <3>1, <3>2
    <2>4. c \in 1..n \/ c = n + 1
      OBVIOUS
    <2>5. QED
      BY <2>2, <2>3, <2>4
  <1>11. ASSUME NEW c \in 1..n, RanCall(toolCalls[c]), toolCalls[c].round = rnd,
                toolCalls[c].request = GroupRequest
         PROVE  GroupRequest \in RoleSensitive /\ toolCalls[c].by # GroupRoles
    <2>1. PICK a \in served : /\ requests[a].request = toolCalls[c].request
                              /\ toolCalls[c].request \in RoleSensitive =>
                                     toolCalls[c].by = {requests[a].role}
      BY <1>9, <1>11
    <2>2. DedupeKey(requests[a]) # DedupeKey(requests[lead])
      BY <1>5 DEF SharedInv, GroupsServed
    <2>3. /\ requests[a].request = requests[lead].request
          /\ requests[a].request = GroupRequest
      BY <1>4, <1>11, <2>1
    <2>4. GroupRequest \in RoleSensitive /\ requests[a].role # requests[lead].role
      BY <2>2, <2>3, SameKey
    <2>5. QED
      BY <1>6, <1>11, <2>1, <2>4
  <1>12. SharedOnce'
    <2>1. SUFFICES ASSUME NEW c \in 1..(n + 1), NEW d \in 1..(n + 1),
                          RanCall(toolCalls'[c]), RanCall(toolCalls'[d])
                   PROVE  /\ toolCalls'[c].request \in RoleSensitive =>
                                 Cardinality(toolCalls'[c].by) = 1
                          /\ /\ c # d
                             /\ toolCalls'[c].round = toolCalls'[d].round
                             /\ toolCalls'[c].request = toolCalls'[d].request
                             => /\ toolCalls'[c].request \in RoleSensitive
                                /\ toolCalls'[c].by # toolCalls'[d].by
      BY <1>3 DEF SharedOnce, Ran, RanCall
    <2>2. toolCalls'[c].request \in RoleSensitive => Cardinality(toolCalls'[c].by) = 1
      <3>1. CASE c \in 1..n
        BY <1>3, <2>1, <3>1 DEF SharedInv, SharedOnce, Ran, RanCall
      <3>2. CASE c = n + 1
        <4>1. toolCalls'[c].request = GroupRequest /\ toolCalls'[c].by = GroupRoles
          BY <1>3, <3>2
        <4>2. Cardinality({requests[lead].role}) = 1
          BY FS_Singleton
        <4>3. QED
          BY <1>6, <4>1, <4>2
      <3>3. c \in 1..n \/ c = n + 1
        OBVIOUS
      <3>4. QED
        BY <3>1, <3>2, <3>3
    <2>3. ASSUME c # d, toolCalls'[c].round = toolCalls'[d].round,
                 toolCalls'[c].request = toolCalls'[d].request
          PROVE  /\ toolCalls'[c].request \in RoleSensitive
                 /\ toolCalls'[c].by # toolCalls'[d].by
      <3>1. CASE c \in 1..n /\ d \in 1..n
        BY <1>3, <2>1, <2>3, <3>1 DEF SharedInv, SharedOnce, Ran, RanCall
      <3>2. CASE c \in 1..n /\ d = n + 1
        BY <1>3, <1>11, <2>1, <2>3, <3>2
      <3>3. CASE c = n + 1 /\ d \in 1..n
        <4>1. /\ toolCalls'[c].round = rnd /\ toolCalls'[c].request = GroupRequest
              /\ toolCalls'[c].by = GroupRoles /\ toolCalls'[d] = toolCalls[d]
          BY <1>3, <3>3
        <4>2. GroupRequest \in RoleSensitive /\ toolCalls[d].by # GroupRoles
          BY <1>11, <2>1, <2>3, <3>3, <4>1
        <4>3. QED
          BY <4>1, <4>2
      <3>4. (c \in 1..n \/ c = n + 1) /\ (d \in 1..n \/ d = n + 1)
        OBVIOUS
      <3>5. QED
        BY <2>3, <3>1, <3>2, <3>3, <3>4
    <2>4. QED
      BY <2>2, <2>3
  <1>13. QED
    BY <1>7, <1>8, <1>10, <1>12 DEF SharedInv

LEMMA NextShared ==
    RunInv /\ FootingInv /\ AccountInv /\ SharedInv /\ [Next]_vars => SharedInv'
  <1>1. SUFFICES ASSUME RunInv, SharedInv, NoResult \/ ExecuteTool PROVE SharedInv'
    BY SharedOthers
  <1>2. /\ pc = "tools" /\ served' = served \cup Group /\ Waiting # {}
        /\ UNCHANGED <<pc, rnd, requests>>
    BY <1>1 DEF NoResult, ExecuteTool, lifeVars
  <1>3. PICK x \in ToolCallType : /\ toolCalls' = Append(toolCalls, x)
                                  /\ x.round = rnd /\ x.by = GroupRoles
                                  /\ x.request = GroupRequest
    BY <1>1, ToolsAppend DEF RunInv
  <1>4. QED
    BY <1>1, <1>2, <1>3, SharedGroup

\* Every request of a completed round ends as a tool call of that round in the name
\* of its asker, and no tool runs twice for the same request of a round
\* (orchestrator.py:151-158, 169-195, tools.py:430-437).
THEOREM RequestsAreAccounted == Spec => []RequestsAccounted
  <1>1. Init => FootingInv
    BY DEF Init, FootingInv, CallsInRound, PriorIsEarlier, SeenIsEarlier
  <1>2. Init => AccountInv /\ SharedInv
    BY DEF Init, AccountInv, Progress, RoundsHeld, ServedAsked, TurnsAccounted, SharedInv,
       SharedOnce, GroupsServed, NoneRanYet, RanForServed
  <1>3. ASSUME RunInv, AccountInv, SharedInv PROVE RequestsAccounted
    <2>1. ASSUME pc \in {"round", "returned"}, NEW i \in DOMAIN turns,
                 turns[i].round <= roundsCompleted
          PROVE  Accounted(i)
      <3>1. TurnAccounted(turns[i], toolCalls)
        BY <1>3, <2>1 DEF AccountInv, TurnsAccounted, Answerable
      <3>2. QED
        BY <3>1 DEF TurnAccounted, AskedIn, Accounted
    <2>2. QED
      BY <1>3, <2>1 DEF RequestsAccounted, SharedInv
  <1>4. QED
    BY <1>1, <1>2, <1>3, NextFooting, NextAccount, NextShared, AlwaysRunInv, PTL DEF Spec
=============================================================================
