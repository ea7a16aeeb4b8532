---------------------------- MODULE MCPollServer ----------------------------
(* Small instances of PollServer: who sends, and which requests look alike. *)
EXTENDS PollServer, TLC

CONSTANTS f1, f2, i1, i2, v1, v2

\* Two browsers behind two addresses.
DistinctBrowsers == {[fp |-> f1, ip |-> i1], [fp |-> f2, ip |-> i2]}

\* One browser, and another behind its address that sends no fingerprint.
SharedAddress == {[fp |-> f1, ip |-> i1], [fp |-> Empty, ip |-> i1]}

SomeBrowser == {[fp |-> f1, ip |-> i1]}

CastSymmetry == Permutations(CastReqs)

=============================================================================
