---------------------------- MODULE MCOnboarding ----------------------------
(***************************************************************************)
(* A small instance of Onboarding. Browsers, people, households and        *)
(* invites are interchangeable: no property tells one from another.        *)
(***************************************************************************)
EXTENDS Onboarding, TLC

OnboardingSymmetry ==
  Permutations(Browsers) \cup Permutations(Subjects) \cup Permutations(Tenants)
    \cup Permutations(Invites)
=============================================================================
