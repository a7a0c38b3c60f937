---------------------------- MODULE MCLiveSites ----------------------------
(* Model-checking values for LiveSites: two objects share a site, one has  *)
(* none.                                                                   *)
EXTENDS LiveSites

MCSiteOf == [o \in Object |-> CASE o = 1 -> 2 [] o = 2 -> 1 [] o = 3 -> 3
                                [] o = 4 -> 2 [] OTHER -> NoSite]
=============================================================================
