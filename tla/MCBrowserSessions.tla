-------------------------- MODULE MCBrowserSessions -------------------------
(* One browser whose requests race, after a start of the process.            *)
EXTENDS BrowserSessions, TLC

CONSTANTS q1, q2, q3, alice

ThreeRequests == {q1, q2, q3}
OneUser == {alice}

\* Requests are interchangeable until they are made.
Symmetry == Permutations(ThreeRequests)
=============================================================================
