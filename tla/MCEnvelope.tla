----------------------------- MODULE MCEnvelope -----------------------------
(* Windows of a few days, days of a few periods.                            *)
EXTENDS Envelope

\* In hundredths: half after a week, or after 1.5 sevenths of one once the level shifted.
MCWeight ==
    LET usual == <<100, 84, 71, 59, 50, 42, 35, 30>>
        fast == <<28725, 12800, 5702, 2540, 1131, 504, 225, 100>>
    IN  [short \in BOOLEAN, age \in 0..7 |-> IF short THEN fast[age + 1] ELSE usual[age + 1]]

\* The same history read with slots of half an hour, of two hours and of a day.
HalfHours == INSTANCE Envelope WITH Hour <- 2, Day <- 4, SlotLength <- 1
TwoHours  == INSTANCE Envelope WITH Day <- 4, SlotLength <- 2
WholeDays == INSTANCE Envelope WITH Hour <- 2, Day <- 4, SlotLength <- 4

\* Whatever divides an hour or is made of whole hours is found again, in slots of any such length (see CollectedIsFound;
\* envelope.py:163-167, 275-282, 320-325).
CollectedIsFoundInSlots ==
    CollectedIsFound /\ HalfHours!CollectedIsFound /\ TwoHours!CollectedIsFound /\ WholeDays!CollectedIsFound
=============================================================================
