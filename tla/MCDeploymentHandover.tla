------------------------ MODULE MCDeploymentHandover ------------------------
(***************************************************************************)
(* Two jobs, two workspaces, and a contract that has declared two servers, *)
(* two of which one host is written with a slash at its end, and none.     *)
(***************************************************************************)
EXTENDS DeploymentHandover, TLC

CONSTANTS h1, h2, h1slash, dev, prod, t1, t2, ci, cd

On(name, host, target) == [name |-> name, host |-> host, target |-> target]

Two == [id |-> 1, servers |-> {On(dev, h1, t1), On(prod, h2, t2)}]
Slash == [id |-> 2, servers |-> {On(dev, h1slash, t1), On(prod, h2, t1)}]
Undeclared == [id |-> 3, servers |-> {}]

MCContracts == {Two, Slash, Undeclared}
MCBlocked == {<<Two, Undeclared>>, <<Slash, Two>>}

Canonical(s) == IF s = h1slash THEN h1 ELSE s

\* The SDK follows the hint, or falls back on a host of its own.
Follows(fallback) ==
  [s \in Spellings \cup {None} |-> IF s = None THEN fallback ELSE Canonical(s)]

\* A profile is selected, and its host outweighs every hint.
Profile(host) == [s \in Spellings \cup {None} |-> host]

Configured(override, configured, sdk) ==
  [override |-> override, configured |-> configured, sdk |-> sdk]

MCEnvironments ==
  {Configured(None, h1slash, Follows(None)), Configured(h1, None, Profile(h2))}

Symmetry == Permutations(Jobs)

MCReadable == {<<h1, t1>>, <<h1, t2>>, <<h2, t2>>}
MCPresent == {<<h1, t1>>, <<h2, t2>>}
=============================================================================
