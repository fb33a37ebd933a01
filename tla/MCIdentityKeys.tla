---------------------------- MODULE MCIdentityKeys ----------------------------
(***************************************************************************)
(* IdentityKeys for three tasks with any requests about one contact.       *)
(***************************************************************************)
EXTENDS IdentityKeys

CONSTANTS alice, k1, k2

Ask(op, s, k, status) == [op |-> op, sid |-> s, key |-> k, status |-> status]

MCRequests ==
    {Ask("save", alice, k, "default") : k \in {k1, k2}}
      \cup {Ask("verify", alice, NoKey, status) : status \in {"default", "verified"}}
      \cup {Ask("sync", alice, k2, "verified"), Ask("sync", alice, k1, "unverified")}
      \cup {Ask(op, alice, NoKey, "default") : op \in {"approve", "load", "remove"}}
===============================================================================
