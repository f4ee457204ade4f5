---------------------------- MODULE TracerLedger ----------------------------
(***************************************************************************)
(* What the tracer promises its callers, whatever its threads, stores and  *)
(* crashes do: a ledger of the click and exposure requests it has seen.    *)
(*                                                                         *)
(*   - a request is acknowledged only after it is recorded;                *)
(*   - a callback is accepted only for a key on record: the id of a        *)
(*     request, or a key the operator has written;                         *)
(*   - a record disappears only when the machine loses power, and then     *)
(*     only if it was not yet on disk.                                     *)
(***************************************************************************)
CONSTANTS
  Ids,                 \* the ids of the requests
  Reserved             \* the keys the operator writes, which are no requests

VARIABLES
  recorded,            \* keys in the ledger
  stable,              \* keys that survive a loss of power
  acknowledged,        \* ids of the requests answered 200, less those lost
  accepted             \* keys whose callback was answered 200

ledger == <<recorded, stable, acknowledged, accepted>>

LedgerInit ==
  /\ recorded \subseteq Reserved
  /\ stable = recorded
  /\ acknowledged = {}
  /\ accepted = {}

Record(id) ==
  /\ recorded' = recorded \cup {id}
  /\ UNCHANGED <<stable, acknowledged, accepted>>

Acknowledge(id) ==
  /\ id \in recorded
  /\ acknowledged' = acknowledged \cup {id}
  /\ UNCHANGED <<recorded, stable, accepted>>

Accept(key) ==
  /\ key \in recorded
  /\ accepted' = accepted \cup {key}
  /\ UNCHANGED <<recorded, stable, acknowledged>>

(* The operator writes a key of his own, and lets it reach the disk.       *)
Install(key) ==
  /\ recorded' = recorded \cup {key}
  /\ stable' = stable \cup {key}
  /\ UNCHANGED <<acknowledged, accepted>>

Persist ==
  /\ stable' = recorded
  /\ UNCHANGED <<recorded, acknowledged, accepted>>

LosePower ==
  /\ stable \subseteq recorded'
  /\ recorded' \subseteq recorded
  /\ stable' = recorded'
  /\ acknowledged' \subseteq acknowledged \cap recorded'
  /\ UNCHANGED accepted

LedgerNext ==
  \/ \E id \in Ids : Record(id) \/ Acknowledge(id)
  \/ \E key \in Ids \cup Reserved : Accept(key)
  \/ \E key \in Reserved : Install(key)
  \/ Persist
  \/ LosePower

LedgerSpec == LedgerInit /\ [][LedgerNext]_ledger

=============================================================================
