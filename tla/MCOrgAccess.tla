---------------------------- MODULE MCOrgAccess ----------------------------
(* A small instance of OrgAccess; requests are interchangeable, so are keys, *)
(* and so are the users who are not the founder.                            *)
EXTENDS OrgAccess, TLC

Symmetry ==
    Permutations(Handlers) \cup Permutations(Users \ {Founder}) \cup Permutations(Keys)
=============================================================================
