-------------------------------- MODULE MCTeam --------------------------------
(* An instance of Team, and of Applications in it, for TLC: the applicant  *)
(* and two others, who are interchangeable.                                *)
EXTENDS Team, TLC

CONSTANTS boss, ann, bob, i1, h1, h2

MCPeople   == {boss, ann, bob}
MCPlans    == {1, 2}
MCSymmetry == Permutations({ann, bob}) \cup Permutations({h1, h2})
=============================================================================
