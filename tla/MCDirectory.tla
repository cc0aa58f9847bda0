---------------------------- MODULE MCDirectory ----------------------------
(***************************************************************************)
(* What directories are made of, one part at a time: the descriptor store  *)
(* of a cache or a client, with three descriptors of a router, two of      *)
(* which name the same extra-info; and the vote of three authorities.      *)
(***************************************************************************)
EXTENDS RouterStore, TLC

CONSTANTS relay, Auths, MaxInterval, MaxRestarts
VARIABLES
  side,  \* which of the parts is looked at
  auth, restarts, votes, signed, published
voteVars == <<auth, restarts, votes, signed, published>>

ThreeDescs == {1, 2, 3}
AnExtra == {4}
OneOwner == (1 :> relay) @@ (2 :> relay) @@ (3 :> relay)
TwoConsensuses == {relay :> 1, relay :> 3}
SharedExtra == (1 :> 4) @@ (2 :> 4) @@ (3 :> Nil)
Voting == INSTANCE DirVote
Symmetry == Permutations(Auths)

SideInit == /\ Init /\ Voting!Init
            /\ side = "store" \/ (side = "vote" /\ caches = FALSE)
Store == side = "store" /\ Next /\ UNCHANGED <<side, voteVars>>
Vote == side = "vote" /\ Voting!Next /\ UNCHANGED <<side, vars>>
SideSpec == SideInit /\ [][Store \/ Vote]_<<side, vars, voteVars>>

\* routers, old_routers and the three maps describe one set of descriptors,
\* and whatever is said to be in the store file is there, at its offset.
StoreSound == MapsSound /\ BodiesRight

\* A document that was saved, and is still held, is on disk.  What the consensus
\* lists, while it is valid or the descriptor is not older than
\* OLD_ROUTER_DESC_MAX_AGE, stays there whatever file operation the program
\* dies after, and is found at the restart.
NothingLost == SavedStays /\ ComesBack

\* Two authorities that publish a consensus of an interval publish the same
\* one, unless one of those who signed both was started again.
OneConsensus == Voting!OneConsensus
============================================================================
