---------------------------- MODULE MCTabNavigation ----------------------------
(* Two addresses, three tabs, and an engine history one entry longer than    *)
(* what a tab keeps of it: on the device there are 5 tabs, 8 and 4 entries.   *)
EXTENDS TabNavigation, FiniteSetsExt, TLC

CONSTANT MaxEntries  \* entries in all tabs together

FewEntries == MapThenSumSet(LAMBDA i : Len(SeenTabs[i].entries), DOMAIN SeenTabs) <= MaxEntries

\* The addresses are compared for equality only, and nothing here is a liveness
\* property.
Symmetry == Permutations(Urls)
================================================================================
