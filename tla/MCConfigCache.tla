---------------------------- MODULE MCConfigCache ---------------------------
\* ConfigCache for TLC: three handler threads, two clients, one of which sends an
\* address with a '=' in it, which a start cuts.  Every byte is counted: c1 stands
\* for "ab", whose tail is c2, "b"; the values are "p", "p=x" and "o".
EXTENDS ConfigCache, TLC

CONSTANTS t1, t2, t3, c1, c2, plain, cut, other

MCThreads == {t1, t2, t3}
MCClients == <<c1, c2>>
MCSends == (c1 :> {plain, cut}) @@ (c2 :> {other})
MCReload == (plain :> plain) @@ (cut :> plain) @@ (other :> other)
MCKeyIn ==
    (c1 :> ((plain :> <<c1, c2, Cut, Cut, Cut, Cut>>)
         @@ (cut :> <<c1, c2, Nobody, Nobody, Cut, Cut, Cut, Cut>>)
         @@ (other :> <<c1, c2, Cut, Cut, Cut, Cut>>)))
 @@ (c2 :> ((plain :> <<c2, Cut, Cut, Cut, Cut>>)
         @@ (cut :> <<c2, Nobody, Nobody, Cut, Cut, Cut, Cut>>)
         @@ (other :> <<c2, Cut, Cut, Cut, Cut>>)))
Symmetric == Permutations(MCThreads)
=============================================================================
