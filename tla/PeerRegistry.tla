----------------------------- MODULE PeerRegistry -----------------------------
(***************************************************************************)
(* What the chain registrations of every deployment promise to the         *)
(* transfers that use them.  Peers are the contracts on other chains that  *)
(* messages are accepted from, and the canonical peer of a chain is the    *)
(* one that messages are sent to.  A message in flight carries the         *)
(* address of its sender, so a peer is never forgotten, and a chain that   *)
(* transfers can be sent to keeps having one destination, which is a peer. *)
(***************************************************************************)
CONSTANTS Chain, Address, None

VARIABLES
  peers,        \* pairs <<chain, address>>
  canonical     \* the canonical peer of each chain, None when unregistered

rVars == <<peers, canonical>>

Consistent(ps, cn) ==
  /\ ps \subseteq Chain \X Address
  /\ cn \in [Chain -> Address \cup {None}]
  /\ \A c \in Chain : cn[c] # None => <<c, cn[c]>> \in ps
  /\ \A p \in ps : cn[p[1]] # None

RInit == peers = {} /\ canonical = [c \in Chain |-> None]

(* One transaction registers any number of peers and moves any number of   *)
(* canonical peers.                                                        *)
Update ==
  /\ peers \subseteq peers'
  /\ Consistent(peers', canonical')

RSpec == RInit /\ [][Update]_rVars
=============================================================================
