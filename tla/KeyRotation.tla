----------------------------- MODULE KeyRotation -----------------------------
(***************************************************************************)
(* The life of the stored credentials through changes of the encryption    *)
(* key: encrypt.go, the key settings of config.go, the start of main.go    *)
(* with RotateBindings of state.go, and what the request handlers do with  *)
(* the encrypted records while the process serves.                         *)
(*                                                                         *)
(* A start whose configuration names a previous key reads every record,    *)
(* then re-encrypts and rewrites them one statement at a time, outside any *)
(* transaction, and exits at the first error.  The operator changes the    *)
(* settings while the process is down.                                     *)
(***************************************************************************)
EXTENDS Naturals

CONSTANTS
    InstanceIds, BindingIds,
    Secrets,           \* credentials of a binding
    NoSecret,          \* a binding without credentials
    Keys,              \* AES keys
    NoKey,             \* an empty setting
    NoRow,             \* a binding that is not recorded
    MaxInterruptions   \* bound on crashes and write errors during one rotation

\* What Encrypt makes of a credential; NoopEncryptor leaves it in plaintext.
Ciphertext == [key : Keys \cup {NoKey}, secret : Secrets]

BindingRow == [inst : InstanceIds, sealed : Ciphertext]

Config == [current : Keys \cup {NoKey}, previous : Keys \cup {NoKey}]

ASSUME RotationAssumption ==
    /\ NoKey \notin Keys
    /\ NoSecret \notin Secrets
    /\ NoRow \notin BindingRow
    /\ MaxInterruptions \in Nat

VARIABLES
    instances,      \* ids in table instance_records
    rows,           \* table binding_records
    config,         \* STATE_ENCRYPTION_KEY and STATE_ENCRYPTION_KEY_PREVIOUS
    phase,          \* of the process
    todo,           \* what RotateBindings has read and not yet handled
    interruptions,  \* crashes and write errors since the last start that served
    started,        \* a start with this configuration has reached the HTTP server
    followed        \* every change of the keys went by README.md:120

settings == <<config, started, followed>>
vars == <<instances, rows, config, phase, todo, interruptions, started, followed>>

Init ==
    /\ instances = {}
    /\ rows = [b \in BindingIds |-> NoRow]
    /\ config \in {[current |-> k, previous |-> NoKey] : k \in Keys \cup {NoKey}}
    /\ phase = "stopped"
    /\ todo = {}
    /\ interruptions = 0
    /\ started = FALSE
    /\ followed = TRUE

-----------------------------------------------------------------------------
\* Encryption.

Encrypt(key, secret) == [key |-> key, secret |-> secret]

\* Decrypt returns no error: the GCM tag matches, or there is no key at all.
Decrypts(key, sealed) == key = NoKey \/ sealed.key = key

\* decryptCredentials: what Decrypt returns is a JSON object.
Readable(key, sealed) == Decrypts(key, sealed) /\ sealed.key = key

Bound(b) == rows[b] # NoRow

-----------------------------------------------------------------------------
\* The operator.

\* The procedure of README.md:120, one step after the other, each after a
\* start that succeeded: the new key in, the old one as previous; then the
\* previous one out.
ByTheReadme(c) ==
    /\ started
    /\ \/ c.current \in Keys /\ c.previous = config.current /\ config.current # NoKey
       \/ c.current = config.current /\ c.previous = NoKey

Configure ==
    /\ phase = "stopped"
    /\ \E c \in Config \ {config} :
          /\ config' = c
          /\ followed' = (followed /\ ByTheReadme(c))
    /\ started' = FALSE
    /\ UNCHANGED <<instances, rows, phase, todo, interruptions>>

-----------------------------------------------------------------------------
\* The start of the process.

\* Variant: the two settings are not checked against each other.
AnyConfig(c) == c \in Config

\* LoadConfig refuses a previous key without a new one; the process exits.
ValidConfig(c) == c.previous # NoKey => c.current # NoKey

\* The process serves requests.
Serve ==
    /\ phase' = "serving"
    /\ started' = TRUE
    /\ interruptions' = 0
    /\ UNCHANGED <<config, followed>>

\* RotateBindings reads the table first; a read that fails is a Crash here.
Start ==
    /\ phase = "stopped" /\ ValidConfig(config)
    /\ \/ /\ config.previous = NoKey
          /\ Serve /\ UNCHANGED todo
       \/ /\ config.previous # NoKey
          /\ phase' = "rotating"
          /\ todo' = {[bind |-> b, sealed |-> rows[b].sealed] : b \in {c \in BindingIds : Bound(c)}}
          /\ UNCHANGED <<settings, interruptions>>
    /\ UNCHANGED <<instances, rows>>

\* The record is "already on the current key".
Skip(item) ==
    /\ Decrypts(config.current, item.sealed)
    /\ todo' = todo \ {item}
    /\ UNCHANGED rows

\* Only the previous key reads the record.
Outdated(item) ==
    ~Decrypts(config.current, item.sealed) /\ Decrypts(config.previous, item.sealed)

\* Variants: the ciphertext is encrypted once more; the update has no WHERE.
ReencryptCiphertext(item) ==
    /\ Outdated(item)
    /\ rows' = [rows EXCEPT ![item.bind].sealed = Encrypt(config.current, item.sealed)]
ReencryptEveryRow(item) ==
    /\ Outdated(item)
    /\ rows' = [b \in BindingIds |-> IF Bound(b)
                  THEN [rows[b] EXCEPT !.sealed = Encrypt(config.current, item.sealed.secret)]
                  ELSE NoRow]

Reencrypt(item) ==
    /\ Outdated(item)
    /\ rows' = [rows EXCEPT ![item.bind].sealed = Encrypt(config.current, item.sealed.secret)]

Rewrite(item) == Reencrypt(item) /\ todo' = todo \ {item}

\* One record, in the order in which the database returned them.
RotateRecord ==
    /\ phase = "rotating"
    /\ \E item \in todo : Skip(item) \/ Rewrite(item)
    /\ UNCHANGED <<instances, settings, phase, interruptions>>

FinishRotation ==
    /\ phase = "rotating" /\ todo = {}
    /\ Serve
    /\ UNCHANGED <<instances, rows, todo>>

Exit == phase' = "stopped" /\ todo' = {}

\* Variant: only the previous key is tried.
RefuseRecordOfCurrentKey ==
    /\ phase = "rotating"
    /\ \E item \in todo : ~Decrypts(config.previous, item.sealed)
    /\ Exit
    /\ UNCHANGED <<instances, rows, settings, interruptions>>

\* Neither key reads the record: must exits the process.
RefuseRecord ==
    /\ phase = "rotating"
    /\ \E item \in todo :
          ~Decrypts(config.current, item.sealed) /\ ~Decrypts(config.previous, item.sealed)
    /\ Exit
    /\ UNCHANGED <<instances, rows, settings, interruptions>>

Interrupted ==
    /\ phase = "rotating" /\ interruptions < MaxInterruptions
    /\ interruptions' = interruptions + 1

\* Variant: the error of the update is not looked at.
RewriteFailsUnnoticed ==
    /\ Interrupted
    /\ \E item \in todo : Outdated(item) /\ todo' = todo \ {item}
    /\ UNCHANGED <<instances, rows, settings, phase>>

\* The update returns an error, applied or not; must exits the process.
RewriteFails ==
    /\ Interrupted
    /\ \E item \in todo : Reencrypt(item)
    /\ Exit
    /\ UNCHANGED <<instances, settings>>

Crash ==
    /\ Interrupted
    /\ Exit
    /\ UNCHANGED <<instances, rows, settings>>

\* The process is stopped, or killed, while it serves.
Stop ==
    /\ phase = "serving"
    /\ Exit
    /\ UNCHANGED <<instances, rows, settings, interruptions>>

-----------------------------------------------------------------------------
\* The handlers that write the tables; they run one at a time (Broker.mu).
\* A record that cannot be read is an error and changes nothing.

Provision(i) ==
    /\ phase = "serving"
    /\ instances' = instances \cup {i}
    /\ UNCHANGED <<rows, settings, phase, todo, interruptions>>

\* Variant: records that cannot be decrypted are left out.
ReadableBindings(i) ==
    {b \in BindingIds : Bound(b) /\ rows[b].inst = i /\ Readable(config.current, rows[b].sealed)}

\* BindingsForInstance: an unreadable record fails the handler as a readable one does.
BindingsForInstance(i) == {b \in BindingIds : Bound(b) /\ rows[b].inst = i}

Deprovision(i) ==
    /\ phase = "serving" /\ i \in instances
    /\ BindingsForInstance(i) = {}
    /\ instances' = instances \ {i}
    /\ UNCHANGED <<rows, settings, phase, todo, interruptions>>

\* PutBinding encrypts with the current key.
Bind(i, b) ==
    /\ phase = "serving" /\ i \in instances /\ ~Bound(b)
    /\ \E secret \in Secrets :
          rows' = [rows EXCEPT ![b] = [inst |-> i, sealed |-> Encrypt(config.current, secret)]]
    /\ UNCHANGED <<instances, settings, phase, todo, interruptions>>

\* Unbind reads the record before it deletes it.
Unbind(b) ==
    /\ phase = "serving" /\ Bound(b) /\ rows[b].inst \in instances
    /\ Readable(config.current, rows[b].sealed)
    /\ rows' = [rows EXCEPT ![b] = NoRow]
    /\ UNCHANGED <<instances, settings, phase, todo, interruptions>>

Rotation == RotateRecord \/ FinishRotation \/ RefuseRecord

Handlers ==
    \/ \E i \in InstanceIds : Provision(i) \/ Deprovision(i)
    \/ \E i \in InstanceIds, b \in BindingIds : Bind(i, b)
    \/ \E b \in BindingIds : Unbind(b)

Next ==
    \/ Configure \/ Start \/ Rotation
    \/ RewriteFails \/ Crash \/ Stop
    \/ Handlers

Spec == Init /\ [][Next]_vars

(***************************************************************************)
(* A process that was stopped is started again by its supervisor, and the  *)
(* loop over the records goes on: each statement returns.  Interruptions   *)
(* of one rotation are bounded, so that the one after them is not one.     *)
(***************************************************************************)
FairSpec == Spec /\ WF_vars(Start) /\ WF_vars(Rotation)

-----------------------------------------------------------------------------
\* Properties.

TypeOK ==
    /\ instances \subseteq InstanceIds
    /\ rows \in [BindingIds -> BindingRow \cup {NoRow}]
    /\ config \in Config
    /\ phase \in {"stopped", "rotating", "serving"}
    /\ todo \subseteq [bind : BindingIds, sealed : Ciphertext]
    /\ interruptions \in 0..MaxInterruptions
    /\ started \in BOOLEAN /\ followed \in BOOLEAN

AllReadable == \A b \in BindingIds : Bound(b) => Readable(config.current, rows[b].sealed)

(***************************************************************************)
(* "so the previous key can be retired once the call succeeds"             *)
(* (state.go:245): a process that serves with a previous key needs it for  *)
(* no record, whatever the operator, earlier crashes and failed starts did.*)
(***************************************************************************)
PreviousKeyRetirable == phase = "serving" /\ config.previous # NoKey => AllReadable

(***************************************************************************)
(* The procedure of README.md:120, repeated for as many keys as one likes  *)
(* and interrupted anywhere, never costs a record: one of the two keys of  *)
(* the configuration reads it, and the current one does while the process  *)
(* serves.                                                                 *)
(***************************************************************************)
ProcedureKeepsReadable ==
    followed =>
        /\ phase = "serving" => AllReadable
        /\ \A b \in BindingIds :
              Bound(b) => rows[b].sealed.key \in {config.current, config.previous}

(***************************************************************************)
(* A record that cannot be decrypted is "an error, not an invisible        *)
(* binding" (state.go:221): no instance is removed under it, whichever     *)
(* keys the process runs with.                                             *)
(***************************************************************************)
NoInvisibleBinding == \A b \in BindingIds : Bound(b) => rows[b].inst \in instances

\* The credentials behind the ciphertexts.
Stored == [b \in BindingIds |-> IF Bound(b) THEN rows[b].sealed.secret ELSE NoSecret]

Vault == INSTANCE CredentialVault WITH credentials <- Stored

\* Re-encryption never changes what a record holds: through all starts,
\* crashes and keys the table is the vault of CredentialVault.
KeepsCredentials == Vault!Spec

\* A rotation that was begun by the procedure ends with a process that
\* serves, after any crash or error in the middle of it.
RotationCompletes == (phase = "rotating" /\ followed) ~> (phase = "serving" \/ ~followed)

Decipherable(sealed) == Decrypts(config.current, sealed) \/ Decrypts(config.previous, sealed)

(***************************************************************************)
(* "rotation refuses to start on a state database it cannot fully decrypt" *)
(* (state.go:246): it rewrites nothing while some record is beyond both    *)
(* keys.                                                                   *)
(***************************************************************************)
RefusesToStart ==
    [][phase = "rotating" /\ rows' # rows
         => \A b \in BindingIds : Bound(b) => Decipherable(rows[b].sealed)]_vars
=============================================================================
