--------------------------- MODULE MCComparePlan ---------------------------
EXTENDS ComparePlan

MCSize == <<0, 0, 2>>
MCMaxWorkers == [p \in Plans |-> 3]
MCFingerprints == [scorer : Scorers, model : Models, scoring : {"tau"}]
MCRequests == [Plans -> [items : SUBSET Items, fingerprint : MCFingerprints]]
=============================================================================
