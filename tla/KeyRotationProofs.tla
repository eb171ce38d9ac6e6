-------------------------- MODULE KeyRotationProofs --------------------------
(***************************************************************************)
(* Proofs about KeyRotation, for every number of keys, bindings and        *)
(* interruptions and whatever the operator does to the configuration.      *)
(***************************************************************************)
EXTENDS KeyRotation, TLAPS

USE DEF settings

-----------------------------------------------------------------------------
(***************************************************************************)
(* Typing.                                                                 *)
(***************************************************************************)
LEMMA EncryptType ==
    ASSUME NEW key \in Keys \cup {NoKey}, NEW secret \in Secrets
    PROVE  Encrypt(key, secret) \in Ciphertext
BY DEF Encrypt, Ciphertext

LEMMA BoundRow ==
    ASSUME TypeOK, NEW b \in BindingIds, Bound(b)
    PROVE  rows[b] \in BindingRow /\ rows[b].inst \in InstanceIds /\ rows[b].sealed \in Ciphertext
BY DEF TypeOK, Bound, BindingRow

LEMMA Resealed ==
    ASSUME TypeOK, NEW b \in BindingIds, Bound(b), NEW sealed \in Ciphertext
    PROVE  /\ [rows[b] EXCEPT !.sealed = sealed] \in BindingRow
           /\ [rows[b] EXCEPT !.sealed = sealed] = [inst |-> rows[b].inst, sealed |-> sealed]
BY BoundRow DEF BindingRow

-----------------------------------------------------------------------------
(***************************************************************************)
(* The state of a rotation.  What RotateBindings has read is still in the  *)
(* table (nobody else writes while it runs), and a record it has handled   *)
(* is on the current key; so when nothing is left to do all of them are.   *)
(***************************************************************************)
Item(b) == [bind |-> b, sealed |-> rows[b].sealed]

Snapshot == \A item \in todo :
    /\ phase = "rotating"
    /\ Bound(item.bind) /\ item.sealed = rows[item.bind].sealed

Handled == phase = "rotating" =>
    /\ config.current # NoKey /\ config.previous # NoKey
    /\ \A b \in BindingIds :
          Bound(b) => Item(b) \in todo \/ rows[b].sealed.key = config.current

RotInv == TypeOK /\ Snapshot /\ Handled /\ PreviousKeyRetirable

LEMMA RotInit == Init => RotInv
<1> SUFFICES ASSUME Init PROVE RotInv
  OBVIOUS
<1>1. config \in Config /\ config.previous = NoKey
  BY DEF Init, Config
<1>2. TypeOK
  <2>1. rows \in [BindingIds -> BindingRow \cup {NoRow}]
    BY DEF Init
  <2>2. interruptions \in 0..MaxInterruptions
    BY RotationAssumption DEF Init
  <2>3. started \in BOOLEAN /\ followed \in BOOLEAN
    BY DEF Init
  <2>4. QED
    BY <1>1, <2>1, <2>2, <2>3 DEF Init, TypeOK
<1>3. QED
  BY <1>2 DEF Init, RotInv, Snapshot, Handled, PreviousKeyRetirable

\* Re-encryption of one record: only that record's ciphertext changes, and
\* not the credentials in it.
LEMMA ReencryptStep ==
    ASSUME RotInv, NEW item \in todo, Reencrypt(item)
    PROVE  /\ item.bind \in BindingIds /\ Bound(item.bind) /\ item = Item(item.bind)
           /\ rows' \in [BindingIds -> BindingRow \cup {NoRow}]
           /\ \A b \in BindingIds : b # item.bind => rows'[b] = rows[b]
           /\ rows'[item.bind] # NoRow
           /\ rows'[item.bind].inst = rows[item.bind].inst
           /\ rows'[item.bind].sealed.key = config.current
           /\ rows'[item.bind].sealed.secret = rows[item.bind].sealed.secret
<1> DEFINE b == item.bind
           sealed == Encrypt(config.current, item.sealed.secret)
<1>1. b \in BindingIds /\ item.sealed \in Ciphertext /\ item = [bind |-> b, sealed |-> item.sealed]
  BY DEF RotInv, TypeOK
<1>2. Bound(b) /\ item.sealed = rows[b].sealed
  BY DEF RotInv, Snapshot
<1>3. sealed \in Ciphertext /\ sealed.key = config.current /\ sealed.secret = item.sealed.secret
  BY <1>1, EncryptType DEF RotInv, TypeOK, Config, Ciphertext, Encrypt
<1>4. rows' = [rows EXCEPT ![b] = [inst |-> rows[b].inst, sealed |-> sealed]]
  BY <1>1, <1>2, <1>3, Resealed DEF Reencrypt, RotInv
<1>5. [inst |-> rows[b].inst, sealed |-> sealed] \in BindingRow
  BY <1>1, <1>2, <1>3, BoundRow DEF RotInv, BindingRow
<1>6. QED
  BY <1>1, <1>2, <1>3, <1>4, <1>5, RotationAssumption DEF RotInv, TypeOK, Item

LEMMA RotStep == RotInv /\ [Next]_vars => RotInv'
<1> SUFFICES ASSUME RotInv, [Next]_vars PROVE RotInv'
  OBVIOUS
<1> USE DEF RotInv
<1>1. CASE Configure
  BY <1>1 DEF Configure, TypeOK, Snapshot, Handled, PreviousKeyRetirable
<1>2. CASE Start
  <2>1. CASE config.previous = NoKey
    BY <1>2, <2>1, RotationAssumption DEF Start, Serve, TypeOK, Snapshot, Handled, PreviousKeyRetirable
  <2>2. CASE config.previous # NoKey
    <3>1. /\ phase' = "rotating" /\ config.current # NoKey
          /\ todo' = {Item(b) : b \in {c \in BindingIds : Bound(c)}}
          /\ UNCHANGED <<instances, rows, settings, interruptions>>
      BY <1>2, <2>2 DEF Start, ValidConfig, Item
    <3>2. \A b \in BindingIds : Bound(b) => Item(b) \in [bind : BindingIds, sealed : Ciphertext]
      BY BoundRow DEF Item
    <3>3. TypeOK'
      BY <3>1, <3>2 DEF TypeOK
    <3>4. Snapshot'
      BY <3>1 DEF Snapshot, Item, Bound
    <3>5. Handled' /\ PreviousKeyRetirable'
      BY <2>2, <3>1 DEF Handled, PreviousKeyRetirable, Item, Bound
    <3>6. QED
      BY <3>3, <3>4, <3>5
  <2>3. QED
    BY <2>1, <2>2
<1>3. ASSUME NEW item \in todo, Skip(item), phase = "rotating",
             UNCHANGED <<instances, settings, phase, interruptions>>
      PROVE  RotInv'
  <2>1. item.bind \in BindingIds /\ item = Item(item.bind)
    BY DEF TypeOK, Snapshot, Item
  <2>2. rows[item.bind].sealed.key = config.current
    BY <1>3, <2>1 DEF Skip, Decrypts, Handled, Item
  <2>3. Handled'
    BY <1>3, <2>1, <2>2 DEF Skip, Handled, Item, Bound
  <2>4. QED
    BY <1>3, <2>3 DEF Skip, TypeOK, Snapshot, PreviousKeyRetirable, Bound
<1>4. ASSUME NEW item \in todo, Rewrite(item), phase = "rotating",
             UNCHANGED <<instances, settings, phase, interruptions>>
      PROVE  RotInv'
  <2>1. Reencrypt(item) /\ todo' = todo \ {item}
    BY <1>4 DEF Rewrite
  <2>2. TypeOK'
    BY <1>4, <2>1, ReencryptStep DEF TypeOK
  <2>3. \A other \in todo' : other.bind # item.bind /\ other.bind \in BindingIds
    <3>1. \A other \in todo : other.bind \in BindingIds /\ other = Item(other.bind)
      BY DEF TypeOK, Snapshot, Item
    <3>2. QED
      BY <2>1, <3>1
  <2>4. Snapshot'
    BY <1>4, <2>1, <2>3, ReencryptStep DEF Snapshot, Bound
  <2>5. Handled'
    <3>1. ASSUME NEW b \in BindingIds, Bound(b)'
          PROVE  Item(b)' \in todo' \/ rows'[b].sealed.key = config'.current
      <4>1. CASE b = item.bind
        BY <1>4, <2>1, <4>1, ReencryptStep
      <4>2. CASE b # item.bind
        <5>1. rows'[b] = rows[b] /\ Bound(b) /\ Item(b)' = Item(b)
          BY <2>1, <3>1, <4>2, ReencryptStep DEF Bound, Item
        <5>2. Item(b).bind = b
          BY DEF Item
        <5>3. Item(b) # item
          BY <4>2, <5>2
        <5>4. QED
          BY <1>4, <2>1, <5>1, <5>3 DEF Handled
      <4>3. QED
        BY <4>1, <4>2
    <3>2. QED
      BY <1>4, <3>1 DEF Handled
  <2>6. QED
    BY <1>4, <2>2, <2>4, <2>5 DEF PreviousKeyRetirable
<1>5. CASE FinishRotation
  BY <1>5, RotationAssumption DEF FinishRotation, Serve, TypeOK, Snapshot, Handled, PreviousKeyRetirable,
              AllReadable, Readable, Decrypts, Bound
<1>6. CASE RefuseRecord \/ Crash \/ Stop
  BY <1>6, RotationAssumption DEF RefuseRecord, Crash, Stop, Interrupted, Exit, TypeOK, Snapshot, Handled,
              PreviousKeyRetirable
<1>7. CASE RewriteFails
  <2>1. PICK item \in todo : Reencrypt(item)
    BY <1>7 DEF RewriteFails
  <2>2. rows' \in [BindingIds -> BindingRow \cup {NoRow}]
    BY <2>1, ReencryptStep
  <2>3. QED
    BY <1>7, <2>2, RotationAssumption DEF RewriteFails, Interrupted, Exit, TypeOK, Snapshot, Handled,
                      PreviousKeyRetirable
<1>8. ASSUME NEW i \in InstanceIds, Provision(i) \/ Deprovision(i) PROVE RotInv'
  BY <1>8 DEF Provision, Deprovision, TypeOK, Snapshot, Handled, PreviousKeyRetirable,
              AllReadable, Readable, Bound
<1>9. ASSUME NEW i \in InstanceIds, NEW b \in BindingIds, Bind(i, b) PROVE RotInv'
  <2>1. PICK secret \in Secrets :
           rows' = [rows EXCEPT ![b] = [inst |-> i, sealed |-> Encrypt(config.current, secret)]]
    BY <1>9 DEF Bind
  <2>2. Encrypt(config.current, secret) \in Ciphertext
    BY EncryptType DEF TypeOK, Config
  <2>3. TypeOK'
    BY <1>9, <2>1, <2>2 DEF Bind, TypeOK, BindingRow
  <2>4. Readable(config.current, Encrypt(config.current, secret))
    BY DEF Readable, Decrypts, Encrypt
  <2>5. AllReadable => AllReadable'
    BY <1>9, <2>1, <2>4 DEF Bind, AllReadable, Bound, TypeOK
  <2>6. QED
    BY <1>9, <2>3, <2>5 DEF Bind, Snapshot, Handled, PreviousKeyRetirable
<1>10. ASSUME NEW b \in BindingIds, Unbind(b) PROVE RotInv'
  <2>1. AllReadable => AllReadable'
    BY <1>10 DEF Unbind, AllReadable, Bound, TypeOK
  <2>2. QED
    BY <1>10, <2>1 DEF Unbind, TypeOK, Snapshot, Handled, PreviousKeyRetirable
<1>11. CASE UNCHANGED vars
  BY <1>11 DEF vars, TypeOK, Snapshot, Handled, PreviousKeyRetirable, AllReadable, Readable,
               Bound, Item
<1>12. QED
  BY <1>1, <1>2, <1>3, <1>4, <1>5, <1>6, <1>7, <1>8, <1>9, <1>10, <1>11
     DEF Next, Rotation, RotateRecord, Handlers

LEMMA RotAlways == Spec => []RotInv
BY RotInit, RotStep, PTL DEF Spec

\* Every reachable state is well typed: in particular what is stored is the
\* encryption of a credential, never of a ciphertext.
THEOREM RotationTypes == Spec => []TypeOK
<1>1. RotInv => TypeOK
  BY DEF RotInv
<1>2. QED
  BY <1>1, RotAlways, PTL

\* state.go:245: when a start with a previous key has succeeded, no record
\* needs that key, whatever happened before.
THEOREM PreviousKeyCanGo == Spec => []PreviousKeyRetirable
<1>1. RotInv => PreviousKeyRetirable
  BY DEF RotInv
<1>2. QED
  BY <1>1, RotAlways, PTL

-----------------------------------------------------------------------------
(***************************************************************************)
(* The procedure of README.md:120.  ProcedureKeepsReadable is not          *)
(* inductive: it does not say that an empty setting reads nothing, nor     *)
(* that a configuration which has served once has moved every record.      *)
(***************************************************************************)
OnCurrentKey == \A b \in BindingIds : Bound(b) => rows[b].sealed.key = config.current

OnEitherKey == \A b \in BindingIds : Bound(b) =>
    \/ rows[b].sealed.key = config.current
    \/ config.previous # NoKey /\ rows[b].sealed.key = config.previous

ProcedureInv ==
    /\ phase = "serving" => started
    /\ followed => OnEitherKey /\ (started => OnCurrentKey)

LEMMA ProcedureStep == RotInv /\ ProcedureInv /\ [Next]_vars => ProcedureInv'
<1> SUFFICES ASSUME RotInv, ProcedureInv, [Next]_vars PROVE ProcedureInv'
  OBVIOUS
<1> USE DEF ProcedureInv, OnEitherKey, OnCurrentKey
<1>1. CASE Configure
  BY <1>1 DEF Configure, ByTheReadme, Bound
<1>2. CASE Start
  BY <1>2 DEF Start, Serve, Bound
<1>3. ASSUME NEW item \in todo, Skip(item),
             UNCHANGED <<instances, settings, phase, interruptions>>
      PROVE  ProcedureInv'
  BY <1>3 DEF Skip, Bound
<1>4. ASSUME NEW item \in todo, Reencrypt(item), UNCHANGED settings,
             phase' = "serving" => phase = "serving"
      PROVE  ProcedureInv'
  BY <1>4, ReencryptStep DEF Bound
<1>5. CASE FinishRotation
  BY <1>5 DEF FinishRotation, Serve, RotInv, Handled, Bound
<1>6. CASE RefuseRecord \/ Crash \/ Stop
  BY <1>6 DEF RefuseRecord, Crash, Stop, Interrupted, Exit, Bound
<1>7. CASE RewriteFails
  BY <1>4, <1>7 DEF RewriteFails, Exit
<1>8. ASSUME NEW i \in InstanceIds, Provision(i) \/ Deprovision(i) PROVE ProcedureInv'
  BY <1>8 DEF Provision, Deprovision, Bound
<1>9. ASSUME NEW i \in InstanceIds, NEW b \in BindingIds, Bind(i, b) PROVE ProcedureInv'
  BY <1>9 DEF Bind, Encrypt, Bound, RotInv, TypeOK
<1>10. ASSUME NEW b \in BindingIds, Unbind(b) PROVE ProcedureInv'
  BY <1>10 DEF Unbind, Bound, RotInv, TypeOK
<1>11. CASE UNCHANGED vars
  BY <1>11 DEF vars, Bound
<1>12. QED
  BY <1>1, <1>2, <1>3, <1>4, <1>5, <1>6, <1>7, <1>8, <1>9, <1>10, <1>11
     DEF Next, Rotation, RotateRecord, Rewrite, Handlers

\* README.md:120: changing keys one after the other, with crashes and write
\* errors anywhere, leaves every record readable to the process that serves.
THEOREM ProcedureIsSafe == Spec => []ProcedureKeepsReadable
<1>1. Init => ProcedureInv
  BY DEF Init, ProcedureInv, OnEitherKey, OnCurrentKey, Bound
<1>2. ProcedureInv => ProcedureKeepsReadable
  BY DEF ProcedureInv, OnEitherKey, OnCurrentKey, ProcedureKeepsReadable, AllReadable,
         Readable, Decrypts
<1>3. QED
  BY <1>1, <1>2, RotAlways, ProcedureStep, PTL DEF Spec

-----------------------------------------------------------------------------
(***************************************************************************)
(* No record without its instance.  Rewriting leaves inst alone, and       *)
(* Deprovision counts the records it cannot read.                          *)
(***************************************************************************)
THEOREM NoneInvisible == Spec => []NoInvisibleBinding
<1>1. Init => NoInvisibleBinding
  BY DEF Init, NoInvisibleBinding, Bound
<1>2. RotInv /\ NoInvisibleBinding /\ [Next]_vars => NoInvisibleBinding'
  <2> SUFFICES ASSUME RotInv, NoInvisibleBinding, [Next]_vars PROVE NoInvisibleBinding'
    OBVIOUS
  <2> USE DEF NoInvisibleBinding
  <2>1. CASE UNCHANGED <<instances, rows>>
    BY <2>1 DEF Bound
  <2>2. ASSUME NEW item \in todo, Reencrypt(item), UNCHANGED instances
        PROVE  NoInvisibleBinding'
    BY <2>2, ReencryptStep DEF Bound
  <2>3. ASSUME NEW i \in InstanceIds, Provision(i) \/ Deprovision(i) PROVE NoInvisibleBinding'
    BY <2>3 DEF Provision, Deprovision, BindingsForInstance, Bound
  <2>4. ASSUME NEW i \in InstanceIds, NEW b \in BindingIds, Bind(i, b) PROVE NoInvisibleBinding'
    BY <2>4 DEF Bind, Bound, RotInv, TypeOK
  <2>5. ASSUME NEW b \in BindingIds, Unbind(b) PROVE NoInvisibleBinding'
    BY <2>5 DEF Unbind, Bound, RotInv, TypeOK
  <2>6. QED
    BY <2>1, <2>2, <2>3, <2>4, <2>5
       DEF Next, Configure, Start, Rotation, RotateRecord, Skip, Rewrite, FinishRotation,
           RefuseRecord, RewriteFails, Crash, Stop, Handlers, vars
<1>3. QED
  BY <1>1, <1>2, RotAlways, PTL DEF Spec

-----------------------------------------------------------------------------
(***************************************************************************)
(* Refinement: the table, decrypted, is the vault.  A rewrite is a stutter *)
(* because what is re-encrypted is what the table still holds (Snapshot).  *)
(***************************************************************************)
LEMMA VaultInit == Init => Vault!Init
BY DEF Init, Vault!Init, Stored, Bound

LEMMA VaultStep == RotInv /\ [Next]_vars => [Vault!Next]_Stored
<1> SUFFICES ASSUME RotInv, [Next]_vars PROVE Vault!Next \/ UNCHANGED Stored
  OBVIOUS
<1>1. CASE UNCHANGED rows
  BY <1>1 DEF Stored, Bound
<1>2. ASSUME NEW item \in todo, Reencrypt(item) PROVE UNCHANGED Stored
  BY <1>2, ReencryptStep DEF Stored, Bound
<1>3. ASSUME NEW i \in InstanceIds, NEW b \in BindingIds, Bind(i, b) PROVE Vault!Next
  <2>1. PICK secret \in Secrets :
           rows' = [rows EXCEPT ![b] = [inst |-> i, sealed |-> Encrypt(config.current, secret)]]
    BY <1>3 DEF Bind
  <2>2. [inst |-> i, sealed |-> Encrypt(config.current, secret)] # NoRow
    BY EncryptType, RotationAssumption DEF RotInv, TypeOK, Config, BindingRow
  <2>3. Stored[b] = NoSecret /\ Stored' = [Stored EXCEPT ![b] = secret]
    BY <1>3, <2>1, <2>2 DEF Bind, Stored, Bound, Encrypt, RotInv, TypeOK
  <2>4. QED
    BY <2>3 DEF Vault!Next, Vault!Put
<1>4. ASSUME NEW b \in BindingIds, Unbind(b) PROVE Vault!Next
  <2>1. Stored[b] # NoSecret
    BY <1>4, BoundRow, RotationAssumption DEF Unbind, Stored, RotInv, Ciphertext
  <2>2. Stored' = [Stored EXCEPT ![b] = NoSecret]
    BY <1>4 DEF Unbind, Stored, Bound, RotInv, TypeOK
  <2>3. QED
    BY <2>1, <2>2 DEF Vault!Next, Vault!Delete
<1>5. QED
  BY <1>1, <1>2, <1>3, <1>4
     DEF Next, Configure, Start, Rotation, RotateRecord, Skip, Rewrite, FinishRotation,
         RefuseRecord, RewriteFails, Crash, Stop, Handlers, Provision, Deprovision, vars

\* A binding keeps the credentials it was created with through every
\* rotation, crash and configuration.
THEOREM VaultImplemented == Spec => KeepsCredentials
BY VaultInit, VaultStep, RotAlways, PTL DEF Spec, KeepsCredentials, Vault!Spec
=============================================================================
