---------------------------- MODULE MCKneeboard ----------------------------
(* Two profiles: one with two panels, the first of which has a view of its *)
(* own, and one with one panel, a mirror and a spare view.                 *)
EXTENDS KneeboardInvariant

CONSTANTS p1, p2, a, b, c, d, w

MCFiles ==
  [p \in {p1, p2} |->
     IF p = p1
       THEN [tabs |-> <<a, b>>, views |-> <<[guid |-> 1, tab |-> a]>>]
       ELSE [tabs |-> <<c>>,
             views |-> <<[guid |-> 2, tab |-> NoTab], [guid |-> 3, tab |-> NoTab]>>]]

MCDefaultTabs == <<w>>
MCMirrors == {2}
=============================================================================
