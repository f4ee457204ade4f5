---------------------------- MODULE ResourcePool ----------------------------
(***************************************************************************)
(* What a pool promises: a fixed stock of resources, each of them free or  *)
(* with one user, and nothing else; when the process that holds it dies,   *)
(* the next one starts with a full stock.  How users wait is not its       *)
(* concern.                                                                *)
(***************************************************************************)
CONSTANTS Users, Resources, Nothing

VARIABLES
  free,      \* resources nobody has
  holding    \* what each user has

PoolInit ==
  /\ free = Resources
  /\ holding = [u \in Users |-> Nothing]

Take(u) ==
  /\ holding[u] = Nothing
  /\ \E r \in free :
       /\ free' = free \ {r}
       /\ holding' = [holding EXCEPT ![u] = r]

Give(u) ==
  /\ holding[u] # Nothing
  /\ free' = free \cup {holding[u]}
  /\ holding' = [holding EXCEPT ![u] = Nothing]

Renew ==
  /\ free' = Resources
  /\ holding' = [u \in Users |-> Nothing]

PoolNext == (\E u \in Users : Take(u) \/ Give(u)) \/ Renew

PoolSpec == PoolInit /\ [][PoolNext]_<<free, holding>>

=============================================================================
