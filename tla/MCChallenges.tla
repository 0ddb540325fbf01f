---------------------------- MODULE MCChallenges ----------------------------
(* Small instances of Challenges for TLC.                                  *)
CONSTANTS Origins, Guarded, Parent, Values, Fetches, AutoSolves, Presses, Limit, MaxFetches,
          MaxSubmits, MaxPresses, \* of Challenges
          Nobody,                 \* its None
          site, images, other

VARIABLES outstanding, listed, bundles, legacy, subscribed, inFlight, spent, solving, viewHost, proc,
          unverified, notifying, fetches, submits, presses \* of Challenges

H == INSTANCE Challenges WITH None <- Nobody
ASSUME MCChallengesAssumption == H!ChallengesAssumption

\* A source whose documents and images are on two hosts, one below the other, and
\* that links to a third.
ImagesBelow == [o \in Origins |-> IF o = images THEN site ELSE Nobody]

HostsSpec == H!FairSpec

\* No wake-up is lost, the requests a host challenged make one prompt, and no host is
\* offered material stored for another domain (fetch.go, clearance.go).
ChallengesSound == H!ChallengesSound

\* The daemon opens no more windows for a host than its allowance before one lets a
\* probe through (autosolve.go).
AllowanceRespected == H!AllowanceRespected

\* Every request and every solve ends (fetch.go, solve.go).
EverythingEnds == H!EverythingEnds
=============================================================================
