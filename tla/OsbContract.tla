----------------------------- MODULE OsbContract -----------------------------
(***************************************************************************)
(* What the platform may rely on, whatever fails behind the broker: each   *)
(* service operation takes effect on the recorded instances and bindings   *)
(* at once, or not at all.  Broker implements this with a lock, a catalog  *)
(* probe, a dozen SQL statements and a store write per operation.          *)
(***************************************************************************)
EXTENDS InstanceParams, ObjectNames

CONSTANTS Passwords, NoRecord

VARIABLES instances, bindings

Init ==
    /\ instances = [i \in InstanceIds |-> NoRecord]
    /\ bindings = [b \in BindingIds |-> NoRecord]

Provision(i) ==
    /\ instances[i] = NoRecord
    /\ \E p \in Plans, n \in Names :
         \E c \in 1..MaxConn[p], g \in 1..MaxGB[p] :
            instances' = [instances EXCEPT ![i] = [plan |-> p, name |-> n, conn |-> c, gb |-> g]]
    /\ UNCHANGED bindings

\* The plan and the name are fixed at provision time.
Update(i) ==
    /\ instances[i] # NoRecord
    /\ \E c \in 1..MaxConn[instances[i].plan], g \in 1..MaxGB[instances[i].plan] :
          instances' = [instances EXCEPT ![i].conn = c, ![i].gb = g]
    /\ UNCHANGED bindings

\* Bindings must be gone first.
Deprovision(i) ==
    /\ instances[i] # NoRecord
    /\ \A b \in BindingIds : bindings[b] # NoRecord => bindings[b].inst # i
    /\ instances' = [instances EXCEPT ![i] = NoRecord]
    /\ UNCHANGED bindings

\* The credentials open the instance's own database and never change.
Bind(i, b) ==
    /\ instances[i] # NoRecord /\ bindings[b] = NoRecord
    /\ \E n \in Names, password \in Passwords :
          bindings' = [bindings EXCEPT ![b] =
             [inst |-> i, user |-> UserFor(b, n), name |-> n,
              credentials |-> [database |-> NamesFor(i, instances[i].name),
                               username |-> UserFor(b, n), password |-> password]]]
    /\ UNCHANGED instances

Unbind(b) ==
    /\ bindings[b] # NoRecord
    /\ bindings' = [bindings EXCEPT ![b] = NoRecord]
    /\ UNCHANGED instances

Next ==
    \/ \E i \in InstanceIds : Provision(i) \/ Update(i) \/ Deprovision(i)
    \/ \E i \in InstanceIds, b \in BindingIds : Bind(i, b)
    \/ \E b \in BindingIds : Unbind(b)

Spec == Init /\ [][Next]_<<instances, bindings>>
=============================================================================
