--------------------------- MODULE MCDiscoveryJobs ---------------------------
(* Values of the constants of Schedules and DiscoveryJobs for TLC. *)
EXTENDS DiscoveryJobs, TLC

CONSTANTS w1, w2, b1, b2, f1, f2, f3

\* Two frequencies in seconds beside one that is not readable; one of each.
OneUnreadable == f1 :> "unreadable" @@ f2 :> "seconds" @@ f3 :> "seconds"
EveryKind     == f1 :> "minutes" @@ f2 :> "unreadable" @@ f3 :> "seconds"

\* f2 and f3 are the same interval, written in two ways: 60s and 060s.
ThreeFrequencies == f1 :> 10 @@ f2 :> 60 @@ f3 :> 60
=============================================================================
