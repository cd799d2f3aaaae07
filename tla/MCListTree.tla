----------------------------- MODULE MCListTree -----------------------------
(* ListTree on three names, of which one is hidden (3) and one that of a   *)
(* directory to ignore (2), and one may be a link (1); one entry to the    *)
(* page.                                                                   *)
EXTENDS ListTree

MCNames == 1..3
MCHidden == {3}
MCIgnored == {2}
MCLinks == {1}

=============================================================================
