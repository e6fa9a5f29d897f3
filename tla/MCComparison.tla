--------------------------- MODULE MCComparison ---------------------------
EXTENDS Comparison, TLC
CONSTANTS p, q, s, t, m, n

MCSize == <<1>>
MCMaxWorkers == p :> 1 @@ q :> 1

Tau == [scorer |-> s, model |-> m, scoring |-> "tau"]
Sigma == [scorer |-> s, model |-> m, scoring |-> "sigma"]
Request(S, f) == [items |-> S, fingerprint |-> f]

\* Two plans compare a file, with the same settings or with others.
MCRequests ==
  { p :> Request({1}, Tau) @@ q :> Request({1}, Tau),
    p :> Request({1}, Tau) @@ q :> Request({1}, Sigma) }
MCFingerprints == {Tau, Sigma}

\* One plan of three files, of which two are empty; an earlier comparison may
\* have scored an empty one and the other.
MCOneSize == <<0, 0, 2>>
MCOneMaxWorkers == p :> 2
MCOneRequests == {p :> Request({1, 2, 3}, Tau)}
MCOneFingerprints == {Tau}
MCOneEarlier == {1, 3} \X {Tau}
=============================================================================
