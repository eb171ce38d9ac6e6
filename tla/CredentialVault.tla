--------------------------- MODULE CredentialVault ---------------------------
(***************************************************************************)
(* What the broker promises about stored credentials, whatever happens to  *)
(* the keys they are encrypted with: a binding keeps the password it was   *)
(* created with until it is deleted.                                       *)
(***************************************************************************)
CONSTANTS BindingIds, Secrets, NoSecret

VARIABLE credentials

Init == credentials = [b \in BindingIds |-> NoSecret]

Put(b, secret) ==
    /\ credentials[b] = NoSecret
    /\ credentials' = [credentials EXCEPT ![b] = secret]

Delete(b) ==
    /\ credentials[b] # NoSecret
    /\ credentials' = [credentials EXCEPT ![b] = NoSecret]

Next == \E b \in BindingIds : Delete(b) \/ \E secret \in Secrets : Put(b, secret)

Spec == Init /\ [][Next]_credentials
=============================================================================
