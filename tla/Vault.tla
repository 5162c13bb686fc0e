-------------------------------- MODULE Vault --------------------------------
(***************************************************************************)
(* What the vault promises of an original, with no request, sweep, ticket  *)
(* or table in sight: where it is in its life, and whether its bytes are   *)
(* stored.  Bytes arrive while the upload is open and only then; they go   *)
(* only from an upload that was given up or from a deleted asset, whose    *)
(* row outlives them; and nothing of either ever comes back.               *)
(***************************************************************************)
CONSTANT Originals

VARIABLES
    stage,    \* how far each original has come
    stored    \* whether its bytes are in the vault

vaultVars == <<stage, stored>>

Stages == {"none", "open", "live", "deleted", "purged", "given_up", "reclaimed"}

VaultInit ==
    /\ stage = [o \in Originals |-> "none"]
    /\ stored = [o \in Originals |-> FALSE]

Becomes(o, next) == stage' = [stage EXCEPT ![o] = next] /\ UNCHANGED stored

Announce(o) == stage[o] = "none" /\ Becomes(o, "open")

Store(o) ==
    /\ stage[o] = "open"
    /\ stored' = [stored EXCEPT ![o] = TRUE] /\ UNCHANGED stage

\* An asset begins with its bytes in place.
Register(o) == stage[o] = "open" /\ stored[o] /\ Becomes(o, "live")

Delete(o) == stage[o] = "live" /\ Becomes(o, "deleted")

\* Nobody finalized the upload in time.
GiveUp(o) == stage[o] = "open" /\ Becomes(o, "given_up")

Discard(o) ==
    /\ stage[o] \in {"given_up", "deleted"}
    /\ stored' = [stored EXCEPT ![o] = FALSE] /\ UNCHANGED stage

\* The record is closed after the bytes have gone.
Purge(o)   == stage[o] = "deleted" /\ ~stored[o] /\ Becomes(o, "purged")
Reclaim(o) == stage[o] = "given_up" /\ ~stored[o] /\ Becomes(o, "reclaimed")

VaultNext ==
    \E o \in Originals :
        \/ Announce(o) \/ Store(o) \/ Register(o) \/ Delete(o)
        \/ GiveUp(o) \/ Discard(o) \/ Purge(o) \/ Reclaim(o)

VaultSpec == VaultInit /\ [][VaultNext]_vaultVars
=============================================================================
