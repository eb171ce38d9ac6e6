---------------------------- MODULE InputProofs ----------------------------
(***************************************************************************)
(* What TLC checks on the bounds of InputRules, proved without them: for   *)
(* every quota a plan may have, custom names of any length, catalogs with  *)
(* any number of plans and templates of any number of tokens.  The loops   *)
(* of validatePlans and splitSQL need induction over what they read, which *)
(* is done once, for sets, in the part on loops.                           *)
(***************************************************************************)
EXTENDS InputRules, WellFoundedInduction, FiniteSetTheorems, TLAPS

(***************************************************************************)
(* Arithmetic of NamesFor and UserFor: with any prefix LoadConfig accepts, *)
(* whatever sanitizePattern leaves of a custom name, the derived names     *)
(* stay within 63 characters and go on behind the prefix.                  *)
(***************************************************************************)
LEMMA NamesWithinBudget ==
    ASSUME NEW p \in Lengths!PrefixLengths, NEW n \in Nat
    PROVE  Lengths!Fit(p, n) /\ Lengths!NotBare(p, n)
BY DEF Lengths!PrefixLengths, Lengths!Fit, Lengths!NotBare, Lengths!GroupRoleLength,
       Lengths!TablespaceLength, Lengths!DatabaseLength, Lengths!UserLength,
       Lengths!BaseLength, Lengths!Cut, Lengths!InstanceBudget, Lengths!UserBudget,
       Lengths!MaxIdentifier, Lengths!HashLength

LengthTypes == prefix \in Lengths!PrefixLengths /\ name \in Nat

\* NamesFor and UserFor: for every prefix LoadConfig accepts and custom names
\* of any length no derived name is cut by the server or empty.
THEOREM NamesAlwaysFit == Spec => []NamesFit
<1>1. Init => LengthTypes
  BY DEF Init, LengthTypes, Lengths!PrefixLengths
<1>2. LengthTypes /\ [Next]_vars => LengthTypes'
  <2> SUFFICES ASSUME LengthTypes, [Next]_vars PROVE LengthTypes'
    OBVIOUS
  <2>1. CASE UNCHANGED <<prefix, name>>
    BY <2>1 DEF LengthTypes
  <2>2. CASE LengthenPrefix
    BY <2>2 DEF LengthenPrefix, LengthTypes
  <2>3. CASE LengthenName
    BY <2>3 DEF LengthenName, LengthTypes
  <2> QED
    BY <2>1, <2>2, <2>3 DEF Next, vars, Write, AddPlan, GiveParameter
<1>3. LengthTypes => NamesFit
  BY NamesWithinBudget DEF LengthTypes, NamesFit
<1> QED
  BY <1>1, <1>2, <1>3, PTL DEF Spec

-----------------------------------------------------------------------------

\* boundedInt takes what minimum, maximum and type of the schema allow.
LEMMA QuotaInPlan ==
    ASSUME NEW value, Schemas!QuotaSchema(value)
    PROVE  Schemas!InBounds(value) /\ value.halves \div 2 \in 1..Maximum
<1>1. /\ value.halves \in Int /\ value.halves % 2 = 0
      /\ 2 <= value.halves /\ value.halves <= 2 * Maximum
      /\ Maximum \in Nat
  BY QuotaAssumption DEF Schemas!QuotaSchema
<1>2. Schemas!InBounds(value)
  BY <1>1 DEF Schemas!InBounds, Schemas!QuotaSchema
<1>3. value.halves \div 2 \in 1..Maximum
  BY <1>1
<1> QED
  BY <1>2, <1>3

\* rawParameters: parameters that are not an object decode to none at all.
LEMMA NothingDecoded ==
    ASSUME raw # "object", NEW key \in Schemas!Keys
    PROVE  ~Schemas!Given(Schemas!Decoded(raw, params)[key])
BY DEF Schemas!Given, Schemas!Decoded, Schemas!Absent

\* ResolveInstanceParams behind either schema: a quota that is given is in
\* bounds, and what is stored is within the plan.
LEMMA QuotasFollowSchema ==
    ASSUME NEW schema, Schemas!UpdatableSchema \subseteq schema,
           Schemas!SchemaAccepts(schema, raw, params),
           NEW key \in Schemas!UpdatableSchema
    PROVE  LET value == Schemas!Decoded(raw, params)[key] IN
           /\ Schemas!Given(value) => Schemas!InBounds(value)
           /\ Schemas!Resolved(raw, params, key) \in 1..Maximum
<1> DEFINE value == Schemas!Decoded(raw, params)[key]
<1>1. key \in {"max_connections", "storage_gb"} /\ key \in Schemas!Keys
  BY DEF Schemas!UpdatableSchema, Schemas!Keys
<1>2. CASE ~Schemas!Given(value)
  BY <1>2, QuotaAssumption DEF Schemas!Resolved
<1>3. CASE Schemas!Given(value)
  <2>1. raw = "object" /\ value = params[key]
    BY <1>1, <1>3, NothingDecoded DEF Schemas!Decoded
  <2>2. Schemas!Fits(key, value)
    BY <1>3, <2>1 DEF Schemas!SchemaAccepts
  <2>3. Schemas!QuotaSchema(value)
    BY <1>1, <2>2 DEF Schemas!Fits
  <2> QED
    BY <1>3, <2>3, QuotaInPlan DEF Schemas!Resolved
<1> QED
  BY <1>2, <1>3

(***************************************************************************)
(* Provision: what the published schema of a plan accepts, boundedInt and  *)
(* ResolveInstanceParams accept, for every maximum, and the quotas that    *)
(* are stored are within it.                                               *)
(***************************************************************************)
THEOREM CreateSchemaAlwaysEnforced == Spec => []CreateSchemaIsEnforced
<1>1. CreateSchemaIsEnforced
  <2> SUFFICES ASSUME Schemas!SchemaAccepts(Schemas!InstanceSchema, raw, params)
               PROVE  /\ Schemas!RulesAccept(Schemas!Decoded(raw, params))
                      /\ \A key \in {"max_connections", "storage_gb"} :
                            Schemas!Resolved(raw, params, key) \in 1..Maximum
    BY DEF CreateSchemaIsEnforced, Schemas!Accepts
  <2>1. Schemas!UpdatableSchema = {"max_connections", "storage_gb"}
        /\ Schemas!UpdatableSchema \subseteq Schemas!InstanceSchema
    BY DEF Schemas!UpdatableSchema, Schemas!InstanceSchema, Schemas!Keys
  <2>2. \A key \in {"compatibility", "encoding"} :
           Schemas!Given(Schemas!Decoded(raw, params)[key])
             => Schemas!Listed(Schemas!Decoded(raw, params)[key])
    <3> SUFFICES ASSUME NEW key \in {"compatibility", "encoding"},
                        Schemas!Given(Schemas!Decoded(raw, params)[key])
                 PROVE  Schemas!Listed(Schemas!Decoded(raw, params)[key])
      OBVIOUS
    <3>1. key \in Schemas!Keys
      BY DEF Schemas!Keys
    <3>2. raw = "object" /\ Schemas!Decoded(raw, params)[key] = params[key]
      BY <3>1, NothingDecoded DEF Schemas!Decoded
    <3>3. Schemas!Fits(key, params[key])
      BY <3>1, <3>2 DEF Schemas!SchemaAccepts, Schemas!InstanceSchema
    <3> QED
      BY <3>2, <3>3 DEF Schemas!Fits, Schemas!EnumSchema, Schemas!Listed, Schemas!String
  <2> QED
    BY <2>1, <2>2, QuotasFollowSchema DEF Schemas!RulesAccept
<1> QED
  BY <1>1, PTL

(***************************************************************************)
(* Update: the rules refuse parameters the published schema accepts when,  *)
(* and only when, compatibility or encoding is given a value outside its   *)
(* list; no quota makes the two differ, for any maximum.                   *)
(***************************************************************************)
THEOREM UpdateSchemaGapIsAll == Spec => []UpdateSchemaGap
<1>1. UpdateSchemaGap
  <2> SUFFICES ASSUME Schemas!SchemaAccepts(Schemas!UpdatableSchema, raw, params)
               PROVE  ~Schemas!RulesAccept(Schemas!Decoded(raw, params))
                        <=> /\ raw = "object"
                            /\ \E key \in {"compatibility", "encoding"} :
                                  /\ Schemas!Given(params[key])
                                  /\ ~Schemas!Listed(params[key])
    BY DEF UpdateSchemaGap, Schemas!Accepts
  <2>1. \A key \in {"max_connections", "storage_gb"} :
           Schemas!Given(Schemas!Decoded(raw, params)[key])
             => Schemas!InBounds(Schemas!Decoded(raw, params)[key])
    BY QuotasFollowSchema DEF Schemas!UpdatableSchema
  <2>2. CASE raw = "object"
    BY <2>1, <2>2 DEF Schemas!RulesAccept, Schemas!Decoded
  <2>3. CASE raw # "object"
    <3>1. \A key \in {"compatibility", "encoding"} :
             ~Schemas!Given(Schemas!Decoded(raw, params)[key])
      BY <2>3, NothingDecoded DEF Schemas!Keys
    <3> QED
      BY <2>1, <2>3, <3>1 DEF Schemas!RulesAccept
  <2> QED
    BY <2>2, <2>3
<1> QED
  BY <1>1, PTL

-----------------------------------------------------------------------------
\* Loops over a sequence.

\* Induction over the naturals, for a set in place of a formula: a least
\* number outside S would be the successor of one in it.
LEMMA InductiveSet ==
    ASSUME NEW S, 0 \in S, \A n \in Nat : n \in S => n + 1 \in S
    PROVE  Nat \subseteq S
<1> DEFINE T == Nat \ S
           R == OpToRel(<, Nat)
<1>1. \A x, y \in Nat : y < x => <<y, x>> \in R
  BY DEF OpToRel
<1>2. SUFFICES ASSUME T # {} PROVE FALSE
  OBVIOUS
<1>3. T \subseteq Nat
  OBVIOUS
<1>4. IsWellFoundedOn(R, Nat)
  BY NatLessThanWellFounded
<1> HIDE DEF R, T
<1>5. PICK x \in T : \A y \in T : ~ (<<y, x>> \in R)
  BY <1>2, <1>3, <1>4, WFMin
<1> USE DEF T
<1>6. x \in Nat /\ x \notin S /\ x # 0
  BY <1>5
<1>7. x - 1 \in Nat /\ x - 1 < x /\ (x - 1) + 1 = x
  BY <1>6
<1>8. x - 1 \in T
  BY <1>6, <1>7
<1> QED
  BY <1>1, <1>5, <1>6, <1>7, <1>8

\* A step leads from A to A, whatever element of E it reads.
Closed(A, E, step) == \A a \in A, e \in E : step[<<a, e>>] \in A

\* f is what a loop that starts with init and makes one step for each element
\* of s has computed after each of its first n turns.
Turns(f, A, step, init, s, n) ==
    /\ DOMAIN f = 0..n /\ f[0] = init
    /\ \A k \in 1..n : f[k - 1] \in A => f[k] = step[<<f[k - 1], s[k]>>]

\* What a loop computes stays in a set its steps stay in.
LEMMA LoopTyped ==
    ASSUME NEW A, NEW E, NEW step, Closed(A, E, step),
           NEW init \in A, NEW s, NEW n \in Nat, \A k \in 1..n : s[k] \in E,
           NEW f, Turns(f, A, step, init, s, n)
    PROVE  \A k \in 0..n : f[k] \in A
<1> DEFINE S == {k \in Nat : k <= n => f[k] \in A}
<1>1. 0 \in S
  BY DEF Turns
<1>2. ASSUME NEW k \in Nat, k \in S PROVE k + 1 \in S
  <2> SUFFICES ASSUME k + 1 <= n PROVE f[k + 1] \in A
    OBVIOUS
  <2>1. k + 1 \in 1..n /\ (k + 1) - 1 = k /\ f[k] \in A
    BY <1>2
  <2>2. f[k + 1] = step[<<f[k], s[k + 1]>>]
    BY <2>1 DEF Turns
  <2> QED
    BY <2>1, <2>2 DEF Closed
<1>3. Nat \subseteq S
  <2> HIDE DEF S
  <2> QED
    BY <1>1, <1>2, InductiveSet
<1> QED
  BY <1>3

\* Such an f exists: the recursive definitions of the loops define it.
LEMMA LoopRuns ==
    ASSUME NEW A, NEW E, NEW step, Closed(A, E, step),
           NEW init \in A, NEW s \in Seq(E)
    PROVE  \E f \in [0..Len(s) -> A] : Turns(f, A, step, init, s, Len(s))
<1> DEFINE S == {n \in Nat : n <= Len(s) => \E f \in [0..n -> A] : Turns(f, A, step, init, s, n)}
<1>1. 0 \in S
  <2> DEFINE f == [k \in 0..0 |-> init]
  <2>1. f \in [0..0 -> A] /\ f[0] = init /\ DOMAIN f = 0..0 /\ 1..0 = {}
    OBVIOUS
  <2> HIDE DEF f
  <2>2. Turns(f, A, step, init, s, 0)
    BY <2>1 DEF Turns
  <2> QED
    BY <2>1, <2>2
<1>2. ASSUME NEW n \in Nat, n \in S PROVE n + 1 \in S
  <2> SUFFICES ASSUME n + 1 <= Len(s)
               PROVE  \E f \in [0..n + 1 -> A] : Turns(f, A, step, init, s, n + 1)
    OBVIOUS
  <2>1. PICK f \in [0..n -> A] : Turns(f, A, step, init, s, n)
    BY <1>2
  <2> DEFINE next == step[<<f[n], s[n + 1]>>]
             g == [k \in 0..n + 1 |-> IF k <= n THEN f[k] ELSE next]
  <2>2. next \in A
    BY <2>1 DEF Closed
  <2>3. /\ DOMAIN g = 0..n + 1 /\ g[n + 1] = next
        /\ \A k \in 0..n : g[k] = f[k]
    OBVIOUS
  <2>4. g \in [0..n + 1 -> A]
    <3> HIDE DEF next
    <3>1. \A k \in 0..n + 1 : k <= n => f[k] \in A
      BY <2>1
    <3> QED
      BY <2>2, <3>1
  <2>5. ASSUME NEW k \in 1..n + 1 PROVE g[k] = step[<<g[k - 1], s[k]>>]
    <3>1. CASE k <= n
      <4>1. k \in 0..n /\ k - 1 \in 0..n /\ k \in 1..n
        BY <3>1
      <4>2. f[k] = step[<<f[k - 1], s[k]>>]
        BY <2>1, <4>1 DEF Turns
      <4> HIDE DEF g
      <4> QED
        BY <2>3, <4>1, <4>2
    <3>2. CASE k = n + 1
      <4>1. k - 1 = n /\ n \in 0..n
        BY <3>2
      <4> HIDE DEF g
      <4> QED
        BY <2>3, <3>2, <4>1
    <3> QED
      BY <3>1, <3>2
  <2>6. Turns(g, A, step, init, s, n + 1)
    <3>1. g[0] = init
      BY <2>1, <2>3 DEF Turns
    <3> HIDE DEF g
    <3> QED
      BY <2>3, <2>5, <3>1 DEF Turns
  <2> QED
    BY <2>4, <2>6
<1>3. Nat \subseteq S
  <2> HIDE DEF S
  <2> QED
    BY <1>1, <1>2, InductiveSet
<1>4. Len(s) \in Nat
  OBVIOUS
<1> QED
  BY <1>3, <1>4

\* f is the loop over s, g the one over s and one more element.
OneMore(f, g, A, E, step, init, s, last) ==
    /\ Closed(A, E, step) /\ init \in A /\ s \in Seq(E) /\ last \in E
    /\ Turns(f, A, step, init, s, Len(s))
    /\ Turns(g, A, step, init, Append(s, last), Len(s) + 1)

\* A loop over one more element makes one more step.
LEMMA LoopOfAppend ==
    ASSUME NEW A, NEW E, NEW step, NEW init, NEW s, NEW last, NEW f, NEW g,
           OneMore(f, g, A, E, step, init, s, last)
    PROVE  f[Len(s)] \in A /\ g[Len(s) + 1] = step[<<f[Len(s)], last>>]
<1> DEFINE n == Len(s)
           m == Len(s) + 1
           t == Append(s, last)
<1>0. /\ Closed(A, E, step) /\ init \in A /\ s \in Seq(E) /\ last \in E
      /\ Turns(f, A, step, init, s, n)
      /\ Turns(g, A, step, init, t, m)
  BY DEF OneMore
<1> DEFINE S == {k \in Nat : k <= n => f[k] = g[k]}
<1>1. /\ n \in Nat /\ m = n + 1
      /\ \A k \in 1..n : s[k] \in E /\ t[k] = s[k]
      /\ \A k \in 1..n + 1 : t[k] \in E
      /\ t[n + 1] = last
  BY <1>0
<1> HIDE DEF n, m, t
<1>2. (\A k \in 0..n : f[k] \in A) /\ (\A k \in 0..n + 1 : g[k] \in A)
  <2>1. \A k \in 0..n : f[k] \in A
    BY <1>0, <1>1, LoopTyped
  <2>2. \A k \in 0..n + 1 : g[k] \in A
    <3>1. n + 1 \in Nat /\ Turns(g, A, step, init, t, n + 1)
      BY <1>0, <1>1
    <3> QED
      BY <1>0, <1>1, <3>1, LoopTyped
  <2> QED
    BY <2>1, <2>2
<1>3. 0 \in S
  BY <1>0 DEF Turns
<1>4. ASSUME NEW k \in Nat, k \in S PROVE k + 1 \in S
  <2> SUFFICES ASSUME k + 1 <= n PROVE f[k + 1] = g[k + 1]
    OBVIOUS
  <2>1. /\ k + 1 \in 1..n /\ k + 1 \in 1..n + 1 /\ (k + 1) - 1 = k
        /\ k \in 0..n /\ k \in 0..n + 1 /\ f[k] = g[k]
    BY <1>1, <1>4
  <2>2. f[k + 1] = step[<<f[k], s[k + 1]>>]
    BY <1>0, <1>2, <2>1 DEF Turns
  <2>3. g[k + 1] = step[<<g[k], t[k + 1]>>]
    <3>1. k + 1 \in 1..m /\ g[k] \in A
      BY <1>1, <1>2, <2>1
    <3> QED
      BY <1>0, <2>1, <3>1 DEF Turns
  <2> QED
    BY <1>1, <2>1, <2>2, <2>3
<1>5. Nat \subseteq S
  <2> HIDE DEF S
  <2> QED
    BY <1>3, <1>4, InductiveSet
<1>6. f[n] = g[n] /\ n \in 0..n + 1 /\ n \in 0..n
  BY <1>1, <1>5
<1>7. g[n + 1] = step[<<g[n], t[n + 1]>>]
  <2>1. n + 1 \in 1..n + 1 /\ (n + 1) - 1 = n
    BY <1>1
  <2> QED
    BY <1>0, <1>1, <1>2, <1>6, <2>1 DEF Turns
<1> QED
  BY <1>1, <1>2, <1>6, <1>7 DEF n, m, t

-----------------------------------------------------------------------------
\* What validatePlans accepts.

\* What the loop of validatePlans keeps.
Seen == [refused : BOOLEAN, ids : SUBSET UUIDs, names : SUBSET PlanNames]
NothingSeen == [refused |-> FALSE, ids |-> {}, names |-> {}]

\* validatePlans: what the loop has seen after one more entry.
LEMMA CheckedTurns ==
    /\ Checked(<<>>) = NothingSeen
    /\ \A s \in Seq(Entry), e \in Entry :
        /\ Checked(s) \in Seen
        /\ Checked(Append(s, e)) = CheckEntry(Checked(s), e)
<1> DEFINE step == [p \in Seen \X Entry |-> CheckEntry(p[1], p[2])]
           IsRun(f, s) == f = [k \in 0..Len(s) |-> IF k = 0 THEN NothingSeen
                                                ELSE CheckEntry(f[k - 1], s[k])]
           Run(s) == CHOOSE f : IsRun(f, s)
<1>1. ASSUME NEW a \in Seen, NEW e \in Entry
      PROVE  step[<<a, e>>] = CheckEntry(a, e) /\ CheckEntry(a, e) \in Seen
  <2>1. step[<<a, e>>] = CheckEntry(a, e)
    OBVIOUS
  <2>2. CheckEntry(a, e) \in Seen
    BY DEF CheckEntry, Refused, Complete, Seen, Entry
  <2> QED
    BY <2>1, <2>2
<1>2. NothingSeen \in Seen
  BY DEF NothingSeen, Seen
<1> HIDE DEF step
<1>3. Closed(Seen, Entry, step)
  BY <1>1 DEF Closed
<1>4. ASSUME NEW s \in Seq(Entry) PROVE Turns(Run(s), Seen, step, NothingSeen, s, Len(s))
  <2>1. \A k \in 1..Len(s) : s[k] \in Entry
    OBVIOUS
  <2>2. PICK f \in [0..Len(s) -> Seen] : Turns(f, Seen, step, NothingSeen, s, Len(s))
    BY <1>2, <1>3, LoopRuns
  <2>3. ASSUME NEW k \in 0..Len(s)
        PROVE  f[k] = IF k = 0 THEN NothingSeen ELSE CheckEntry(f[k - 1], s[k])
    <3>1. CASE k = 0
      BY <2>2, <3>1 DEF Turns
    <3>2. CASE k # 0
      <4>1. k \in 1..Len(s) /\ k - 1 \in 0..Len(s)
        BY <3>2
      <4>2. f[k - 1] \in Seen /\ f[k] = step[<<f[k - 1], s[k]>>]
        BY <2>2, <4>1 DEF Turns
      <4> QED
        BY <1>1, <2>1, <3>2, <4>1, <4>2, Zenon
    <3> QED
      BY <3>1, <3>2
  <2>4. IsRun(Run(s), s)
    BY <2>2, <2>3
  <2> DEFINE g == Run(s)
  <2> HIDE DEF Run
  <2>5. /\ DOMAIN g = 0..Len(s)
        /\ \A k \in 0..Len(s) : g[k] = IF k = 0 THEN NothingSeen ELSE CheckEntry(g[k - 1], s[k])
    BY <2>4, Zenon
  <2> HIDE DEF g, IsRun
  <2>6. g[0] = NothingSeen
    BY <2>5
  <2>7. ASSUME NEW k \in 1..Len(s), g[k - 1] \in Seen
        PROVE  g[k] = step[<<g[k - 1], s[k]>>]
    <3>1. k \in 0..Len(s) /\ k # 0
      OBVIOUS
    <3> QED
      BY <1>1, <2>1, <2>5, <2>7, <3>1, Zenon
  <2> QED
    BY <2>5, <2>6, <2>7 DEF Turns, g
<1>5. ASSUME NEW s \in Seq(Entry) PROVE Checked(s) = Run(s)[Len(s)]
  BY DEF Checked, NothingSeen
<1> HIDE DEF Run
<1>6. Checked(<<>>) = NothingSeen
  <2>1. <<>> \in Seq(Entry) /\ Len(<<>>) = 0
    OBVIOUS
  <2> QED
    BY <1>4, <1>5, <2>1 DEF Turns
<1>7. ASSUME NEW s \in Seq(Entry), NEW e \in Entry
      PROVE  Checked(s) \in Seen /\ Checked(Append(s, e)) = CheckEntry(Checked(s), e)
  <2>1. Append(s, e) \in Seq(Entry) /\ Len(Append(s, e)) = Len(s) + 1
    OBVIOUS
  <2>2. OneMore(Run(s), Run(Append(s, e)), Seen, Entry, step, NothingSeen, s, e)
    BY <1>2, <1>3, <1>4, <2>1 DEF OneMore
  <2>3. /\ Run(s)[Len(s)] \in Seen
        /\ Run(Append(s, e))[Len(s) + 1] = step[<<Run(s)[Len(s)], e>>]
    BY <2>2, LoopOfAppend
  <2> QED
    BY <1>1, <1>5, <2>1, <2>3
<1> QED
  BY <1>6, <1>7

\* The entries are usable and told apart.
Distinct(s) ==
    /\ \A k \in DOMAIN s : /\ s[k].id \in UUIDs /\ s[k].name \in PlanNames
                           /\ s[k].gb > 0 /\ s[k].conn > 0
    /\ \A j, k \in DOMAIN s : s[j].id = s[k].id \/ s[j].name = s[k].name => j = k

\* The loop stands where the entries it read leave it.
LoopTells(s) ==
    /\ Checked(s) \in Seen
    /\ ~Checked(s).refused <=> Distinct(s)
    /\ ~Checked(s).refused =>
          /\ Checked(s).ids = {s[k].id : k \in DOMAIN s}
          /\ Checked(s).names = {s[k].name : k \in DOMAIN s}

\* One more turn of the loop: an id or a name already seen is one of an
\* earlier entry.
LEMMA LoopTellsNext ==
    ASSUME NEW s \in Seq(Entry), LoopTells(s), NEW e \in Entry
    PROVE  LoopTells(Append(s, e))
<1> DEFINE t == Append(s, e)
           n == Len(s)
           c == Checked(s)
           d == Checked(t)
<1>1. /\ n \in Nat /\ DOMAIN s = 1..n /\ DOMAIN t = 1..n + 1
      /\ t[n + 1] = e /\ \A k \in 1..n : t[k] = s[k]
  OBVIOUS
<1>2. t \in Seq(Entry) /\ d = CheckEntry(c, e) /\ d \in Seen
  <2>1. t \in Seq(Entry)
    OBVIOUS
  <2>2. d = CheckEntry(c, e)
    BY CheckedTurns, Zenon
  <2> HIDE DEF t
  <2>3. Checked(t) \in Seen
    BY <2>1, CheckedTurns, Zenon
  <2> QED
    BY <2>1, <2>2, <2>3
<1>3. /\ c \in Seen
      /\ ~c.refused <=> Distinct(s)
      /\ ~c.refused => /\ c.ids = {s[k].id : k \in DOMAIN s}
                       /\ c.names = {s[k].name : k \in DOMAIN s}
  BY DEF LoopTells
<1>4. SUFFICES /\ ~d.refused <=> Distinct(t)
               /\ ~d.refused => /\ d.ids = {t[k].id : k \in DOMAIN t}
                                /\ d.names = {t[k].name : k \in DOMAIN t}
  BY <1>2 DEF LoopTells
<1> HIDE DEF t, n, c, d
<1>5. Distinct(t) => Distinct(s)
  <2>1. \A k \in 1..n : k \in 1..n + 1
    BY <1>1
  <2> QED
    BY <1>1, <2>1 DEF Distinct
<1>6. CASE c.refused
  BY <1>2, <1>3, <1>5, <1>6 DEF CheckEntry, Seen
<1>7. CASE ~c.refused /\ Refused(e, c.ids, c.names)
  <2>1. d.refused
    BY <1>2, <1>3, <1>7 DEF CheckEntry, Seen
  <2>2. ~Distinct(t)
    <3> SUFFICES ASSUME Distinct(t) PROVE FALSE
      OBVIOUS
    <3>1. n + 1 \in DOMAIN t /\ \A k \in DOMAIN s : k \in DOMAIN t /\ k # n + 1
      BY <1>1
    <3>2. e.id \in UUIDs /\ e.name \in PlanNames /\ e.gb > 0 /\ e.conn > 0
      BY <1>1, <3>1 DEF Distinct
    <3>3. e.gb \in {0, 1} /\ e.conn \in {0, 1}
      BY DEF Entry
    <3>4. e.id \in c.ids \/ e.name \in c.names
      BY <1>7, <3>2, <3>3, EmptyAssumption DEF Refused, Complete
    <3>5. PICK k \in DOMAIN s : s[k].id = e.id \/ s[k].name = e.name
      BY <1>3, <1>7, <3>4
    <3>6. t[k] = s[k]
      BY <1>1
    <3> QED
      BY <1>1, <3>1, <3>5, <3>6 DEF Distinct
  <2> QED
    BY <2>1, <2>2
<1>8. CASE ~c.refused /\ ~Refused(e, c.ids, c.names)
  <2>1. d = [c EXCEPT !.ids = @ \cup {e.id}, !.names = @ \cup {e.name}]
    BY <1>2, <1>8 DEF CheckEntry
  <2>2. /\ ~d.refused
        /\ d.ids = c.ids \cup {e.id} /\ d.names = c.names \cup {e.name}
    BY <1>3, <1>8, <2>1 DEF Seen
  <2>3. /\ e.id \in UUIDs /\ e.name \in PlanNames /\ e.gb > 0 /\ e.conn > 0
        /\ e.id \notin c.ids /\ e.name \notin c.names
    BY <1>8 DEF Refused, Complete, Entry
  <2>4. /\ {t[k].id : k \in DOMAIN t} = c.ids \cup {e.id}
        /\ {t[k].name : k \in DOMAIN t} = c.names \cup {e.name}
    BY <1>1, <1>3, <1>8
  <2>5. Distinct(t)
    <3>1. Distinct(s)
      BY <1>3, <1>8
    <3>2. ASSUME NEW k \in DOMAIN t
          PROVE  /\ t[k].id \in UUIDs /\ t[k].name \in PlanNames
                 /\ t[k].gb > 0 /\ t[k].conn > 0
      <4>1. CASE k \in 1..n
        BY <1>1, <3>1, <4>1 DEF Distinct
      <4>2. CASE k = n + 1
        BY <1>1, <2>3, <4>2
      <4> QED
        BY <1>1, <3>2, <4>1, <4>2
    <3>3. ASSUME NEW k \in 1..n PROVE s[k].id # e.id /\ s[k].name # e.name
      BY <1>1, <1>3, <1>8, <2>3, <3>3
    <3>4. ASSUME NEW j \in DOMAIN t, NEW k \in DOMAIN t,
                 t[j].id = t[k].id \/ t[j].name = t[k].name
          PROVE  j = k
      <4>1. (j \in 1..n \/ j = n + 1) /\ (k \in 1..n \/ k = n + 1)
        BY <1>1
      <4>2. CASE j \in 1..n /\ k \in 1..n
        BY <1>1, <3>1, <3>4, <4>2 DEF Distinct
      <4>3. CASE j = n + 1 \/ k = n + 1
        BY <1>1, <3>3, <3>4, <4>1, <4>3
      <4> QED
        BY <4>1, <4>2, <4>3
    <3> QED
      BY <3>2, <3>4 DEF Distinct
  <2> QED
    BY <2>2, <2>4, <2>5
<1> QED
  BY <1>6, <1>7, <1>8

\* Inductive: it speaks of every front of the file, not only of the whole.
PlansRead == plans \in Seq(Entry) /\ LoopTells(plans)

\* Broker.plan: a loop that stops at the first entry with the id finds the
\* entry itself when no other has it.
LEMMA FirstIsOnly ==
    ASSUME NEW s \in Seq(Entry), Distinct(s), NEW k \in DOMAIN s
    PROVE  PlanAt(s, s[k].id) = k
<1> DEFINE I == {i \in 1..Len(s) : s[i].id = s[k].id}
<1>1. DOMAIN s = 1..Len(s) /\ Len(s) \in Nat
  OBVIOUS
<1>2. I = {k} /\ k \in Nat
  BY <1>1 DEF Distinct
<1>3. PlanAt(s, s[k].id) = IF I # {} THEN Min(I) ELSE 0
  BY DEF PlanAt, SelectInSeq
<1> HIDE DEF I
<1>4. Min({k}) = k
  BY <1>2 DEF Min
<1> QED
  BY <1>2, <1>3, <1>4

(***************************************************************************)
(* validatePlans, for any number of entries: one pass with the ids and the *)
(* names seen so far accepts exactly the catalogs whose plans are usable   *)
(* and told apart, and Broker.plan finds every plan of an accepted one.    *)
(***************************************************************************)
THEOREM CatalogAlwaysUnambiguous == Spec => []CatalogUnambiguous
<1>1. Init => PlansRead
  <2> SUFFICES ASSUME Init PROVE PlansRead
    OBVIOUS
  <2>1. plans = <<>> /\ plans \in Seq(Entry) /\ DOMAIN plans = {}
    BY DEF Init
  <2>2. Checked(plans) = NothingSeen /\ NothingSeen \in Seen
    BY <2>1, CheckedTurns DEF NothingSeen, Seen
  <2>3. Distinct(plans)
    BY <2>1 DEF Distinct
  <2>4. /\ Checked(plans).ids = {} /\ Checked(plans).names = {}
        /\ ~Checked(plans).refused
    BY <2>2 DEF NothingSeen
  <2> QED
    BY <2>1, <2>2, <2>3, <2>4 DEF PlansRead, LoopTells
<1>2. PlansRead /\ [Next]_vars => PlansRead'
  <2> SUFFICES ASSUME PlansRead, [Next]_vars PROVE PlansRead'
    OBVIOUS
  <2>1. CASE UNCHANGED plans
    BY <2>1 DEF PlansRead
  <2>2. ASSUME NEW e \in Entry, AddPlan(e) PROVE PlansRead'
    <3>1. plans' = Append(plans, e) /\ plans' \in Seq(Entry)
      BY <2>2 DEF AddPlan, PlansRead
    <3>2. LoopTells(plans')
      BY <3>1, LoopTellsNext DEF PlansRead
    <3> QED
      BY <3>1, <3>2 DEF PlansRead
  <2> QED
    BY <2>1, <2>2 DEF Next, vars, Write, GiveParameter, LengthenPrefix, LengthenName
<1>3. PlansRead => CatalogUnambiguous
  <2> SUFFICES ASSUME PlansRead PROVE CatalogUnambiguous
    OBVIOUS
  <2>1. Accepted(plans) <=> plans # <<>> /\ Distinct(plans)
    BY DEF PlansRead, LoopTells, Accepted
  <2>2. Unambiguous(plans) <=> plans # <<>> /\ Distinct(plans)
    BY DEF Unambiguous, Distinct
  <2> QED
    BY <2>1, <2>2, FirstIsOnly DEF CatalogUnambiguous, PlansRead
<1> QED
  BY <1>1, <1>2, <1>3, PTL DEF Spec

-----------------------------------------------------------------------------
\* The statements splitSQL makes of a template.

\* strings.Split returns at least one part.
Parts == {parts \in Seq(Seq(Tokens)) : Len(parts) > 0}
Lexers == [mode : {"code", "literal", "comment"}, statements : Parts]
NothingScanned == [mode |-> "code", statements |-> << <<>> >>]

\* strings.Split of a text with one more token.
LEMMA SplitTurns ==
  ASSUME NEW separator
  PROVE
    /\ Split(<<>>, separator) = << <<>> >>
    /\ \A s \in Seq(Tokens), e \in Tokens :
        /\ Split(s, separator) \in Parts
        /\ Split(Append(s, e), separator) = CutAt(separator, Split(s, separator), e)
<1> DEFINE step == [p \in Parts \X Tokens |-> CutAt(separator, p[1], p[2])]
           IsRun(f, s) == f = [k \in 0..Len(s) |-> IF k = 0 THEN << <<>> >>
                                                ELSE CutAt(separator, f[k - 1], s[k])]
           Run(s) == CHOOSE f : IsRun(f, s)
<1>1. ASSUME NEW a \in Parts, NEW e \in Tokens
      PROVE  step[<<a, e>>] = CutAt(separator, a, e) /\ CutAt(separator, a, e) \in Parts
  <2>1. step[<<a, e>>] = CutAt(separator, a, e)
    OBVIOUS
  <2>2. CutAt(separator, a, e) \in Parts
    <3>1. a \in Seq(Seq(Tokens)) /\ Len(a) \in Nat /\ Len(a) > 0
      BY DEF Parts
    <3>2. a[Len(a)] \in Seq(Tokens) /\ Append(a[Len(a)], e) \in Seq(Tokens)
      BY <3>1
    <3>3. [a EXCEPT ![Len(a)] = Append(@, e)] \in Parts
      BY <3>1, <3>2 DEF Parts
    <3>4. Append(a, <<>>) \in Parts
      BY <3>1 DEF Parts
    <3> QED
      BY <3>3, <3>4 DEF CutAt
  <2> QED
    BY <2>1, <2>2
<1>2. << <<>> >> \in Parts
  BY DEF Parts
<1> HIDE DEF step
<1>3. Closed(Parts, Tokens, step)
  BY <1>1 DEF Closed
<1>4. ASSUME NEW s \in Seq(Tokens) PROVE Turns(Run(s), Parts, step, << <<>> >>, s, Len(s))
  <2>1. \A k \in 1..Len(s) : s[k] \in Tokens
    OBVIOUS
  <2>2. PICK f \in [0..Len(s) -> Parts] : Turns(f, Parts, step, << <<>> >>, s, Len(s))
    BY <1>2, <1>3, LoopRuns
  <2>3. ASSUME NEW k \in 0..Len(s)
        PROVE  f[k] = IF k = 0 THEN << <<>> >> ELSE CutAt(separator, f[k - 1], s[k])
    <3>1. CASE k = 0
      BY <2>2, <3>1 DEF Turns
    <3>2. CASE k # 0
      <4>1. k \in 1..Len(s) /\ k - 1 \in 0..Len(s)
        BY <3>2
      <4>2. f[k - 1] \in Parts /\ f[k] = step[<<f[k - 1], s[k]>>]
        BY <2>2, <4>1 DEF Turns
      <4> QED
        BY <1>1, <2>1, <3>2, <4>1, <4>2, Zenon
    <3> QED
      BY <3>1, <3>2
  <2>4. IsRun(Run(s), s)
    BY <2>2, <2>3
  <2> DEFINE g == Run(s)
  <2> HIDE DEF Run
  <2>5. /\ DOMAIN g = 0..Len(s)
        /\ \A k \in 0..Len(s) : g[k] = IF k = 0 THEN << <<>> >> ELSE CutAt(separator, g[k - 1], s[k])
    BY <2>4, Zenon
  <2> HIDE DEF g, IsRun
  <2>6. g[0] = << <<>> >>
    BY <2>5
  <2>7. ASSUME NEW k \in 1..Len(s), g[k - 1] \in Parts
        PROVE  g[k] = step[<<g[k - 1], s[k]>>]
    <3>1. k \in 0..Len(s) /\ k # 0
      OBVIOUS
    <3> QED
      BY <1>1, <2>1, <2>5, <2>7, <3>1, Zenon
  <2> QED
    BY <2>5, <2>6, <2>7 DEF Turns, g
<1>5. ASSUME NEW s \in Seq(Tokens) PROVE Split(s, separator) = Run(s)[Len(s)]
  BY DEF Split
<1> HIDE DEF Run
<1>6. Split(<<>>, separator) = << <<>> >>
  <2>1. <<>> \in Seq(Tokens) /\ Len(<<>>) = 0
    OBVIOUS
  <2> QED
    BY <1>4, <1>5, <2>1 DEF Turns
<1>7. ASSUME NEW s \in Seq(Tokens), NEW e \in Tokens
      PROVE  Split(s, separator) \in Parts /\ Split(Append(s, e), separator) = CutAt(separator, Split(s, separator), e)
  <2>1. Append(s, e) \in Seq(Tokens) /\ Len(Append(s, e)) = Len(s) + 1
    OBVIOUS
  <2>2. OneMore(Run(s), Run(Append(s, e)), Parts, Tokens, step, << <<>> >>, s, e)
    BY <1>2, <1>3, <1>4, <2>1 DEF OneMore
  <2>3. /\ Run(s)[Len(s)] \in Parts
        /\ Run(Append(s, e))[Len(s) + 1] = step[<<Run(s)[Len(s)], e>>]
    BY <2>2, LoopOfAppend
  <2> QED
    BY <1>1, <1>5, <2>1, <2>3
<1> QED
  BY <1>6, <1>7

\* splitSQL: what is kept of one more line.
LEMMA CleanedTurns ==
    /\ Cleaned(<<>>) = <<>>
    /\ \A s \in Seq(Seq(Tokens)), e \in Seq(Tokens) :
        /\ Cleaned(s) \in Seq(Tokens)
        /\ Cleaned(Append(s, e)) = KeepLine(Cleaned(s), e)
<1> DEFINE step == [p \in Seq(Tokens) \X Seq(Tokens) |-> KeepLine(p[1], p[2])]
           IsRun(f, s) == f = [k \in 0..Len(s) |-> IF k = 0 THEN <<>>
                                                ELSE KeepLine(f[k - 1], s[k])]
           Run(s) == CHOOSE f : IsRun(f, s)
<1>1. ASSUME NEW a \in Seq(Tokens), NEW e \in Seq(Tokens)
      PROVE  step[<<a, e>>] = KeepLine(a, e) /\ KeepLine(a, e) \in Seq(Tokens)
  <2>1. step[<<a, e>>] = KeepLine(a, e)
    OBVIOUS
  <2>2. KeepLine(a, e) \in Seq(Tokens)
    BY DEF KeepLine
  <2> QED
    BY <2>1, <2>2
<1>2. <<>> \in Seq(Tokens)
  BY DEF Tokens
<1> HIDE DEF step
<1>3. Closed(Seq(Tokens), Seq(Tokens), step)
  BY <1>1 DEF Closed
<1>4. ASSUME NEW s \in Seq(Seq(Tokens)) PROVE Turns(Run(s), Seq(Tokens), step, <<>>, s, Len(s))
  <2>1. \A k \in 1..Len(s) : s[k] \in Seq(Tokens)
    OBVIOUS
  <2>2. PICK f \in [0..Len(s) -> Seq(Tokens)] : Turns(f, Seq(Tokens), step, <<>>, s, Len(s))
    BY <1>2, <1>3, LoopRuns
  <2>3. ASSUME NEW k \in 0..Len(s)
        PROVE  f[k] = IF k = 0 THEN <<>> ELSE KeepLine(f[k - 1], s[k])
    <3>1. CASE k = 0
      BY <2>2, <3>1 DEF Turns
    <3>2. CASE k # 0
      <4>1. k \in 1..Len(s) /\ k - 1 \in 0..Len(s)
        BY <3>2
      <4>2. f[k - 1] \in Seq(Tokens) /\ f[k] = step[<<f[k - 1], s[k]>>]
        BY <2>2, <4>1 DEF Turns
      <4> QED
        BY <1>1, <2>1, <3>2, <4>1, <4>2, Zenon
    <3> QED
      BY <3>1, <3>2
  <2>4. IsRun(Run(s), s)
    BY <2>2, <2>3
  <2> DEFINE g == Run(s)
  <2> HIDE DEF Run
  <2>5. /\ DOMAIN g = 0..Len(s)
        /\ \A k \in 0..Len(s) : g[k] = IF k = 0 THEN <<>> ELSE KeepLine(g[k - 1], s[k])
    BY <2>4, Zenon
  <2> HIDE DEF g, IsRun
  <2>6. g[0] = <<>>
    BY <2>5
  <2>7. ASSUME NEW k \in 1..Len(s), g[k - 1] \in Seq(Tokens)
        PROVE  g[k] = step[<<g[k - 1], s[k]>>]
    <3>1. k \in 0..Len(s) /\ k # 0
      OBVIOUS
    <3> QED
      BY <1>1, <2>1, <2>5, <2>7, <3>1, Zenon
  <2> QED
    BY <2>5, <2>6, <2>7 DEF Turns, g
<1>5. ASSUME NEW s \in Seq(Seq(Tokens)) PROVE Cleaned(s) = Run(s)[Len(s)]
  BY DEF Cleaned
<1> HIDE DEF Run
<1>6. Cleaned(<<>>) = <<>>
  <2>1. <<>> \in Seq(Seq(Tokens)) /\ Len(<<>>) = 0
    OBVIOUS
  <2> QED
    BY <1>4, <1>5, <2>1 DEF Turns
<1>7. ASSUME NEW s \in Seq(Seq(Tokens)), NEW e \in Seq(Tokens)
      PROVE  Cleaned(s) \in Seq(Tokens) /\ Cleaned(Append(s, e)) = KeepLine(Cleaned(s), e)
  <2>1. Append(s, e) \in Seq(Seq(Tokens)) /\ Len(Append(s, e)) = Len(s) + 1
    OBVIOUS
  <2>2. OneMore(Run(s), Run(Append(s, e)), Seq(Tokens), Seq(Tokens), step, <<>>, s, e)
    BY <1>2, <1>3, <1>4, <2>1 DEF OneMore
  <2>3. /\ Run(s)[Len(s)] \in Seq(Tokens)
        /\ Run(Append(s, e))[Len(s) + 1] = step[<<Run(s)[Len(s)], e>>]
    BY <2>2, LoopOfAppend
  <2> QED
    BY <1>1, <1>5, <2>1, <2>3
<1> QED
  BY <1>6, <1>7

\* The lexer is always in a mode and in a statement.
LEMMA LexerTyped ==
    ASSUME NEW a \in Lexers, NEW e \in Tokens
    PROVE  LexStep(a, e) \in Lexers
<1> DEFINE st == a.statements
           last == Append(st[Len(st)], e)
<1>1. st \in Seq(Seq(Tokens)) /\ Len(st) \in Nat /\ Len(st) > 0
  BY DEF Lexers, Parts
<1>2. last \in Seq(Tokens)
  BY <1>1
<1>3. [st EXCEPT ![Len(st)] = last] \in Parts /\ Append(st, <<>>) \in Parts
  BY <1>1, <1>2 DEF Parts
<1> QED
  BY <1>3 DEF LexStep, Lexers

\* The lexer after one more token.
LEMMA ScannedTurns ==
    /\ Scanned(<<>>) = NothingScanned
    /\ \A s \in Seq(Tokens), e \in Tokens :
        /\ Scanned(s) \in Lexers
        /\ Scanned(Append(s, e)) = LexStep(Scanned(s), e)
<1> DEFINE step == [p \in Lexers \X Tokens |-> LexStep(p[1], p[2])]
           IsRun(f, s) == f = [k \in 0..Len(s) |-> IF k = 0 THEN NothingScanned
                                                ELSE LexStep(f[k - 1], s[k])]
           Run(s) == CHOOSE f : IsRun(f, s)
<1>1. ASSUME NEW a \in Lexers, NEW e \in Tokens
      PROVE  step[<<a, e>>] = LexStep(a, e) /\ LexStep(a, e) \in Lexers
  <2>1. step[<<a, e>>] = LexStep(a, e)
    OBVIOUS
  <2>2. LexStep(a, e) \in Lexers
    BY LexerTyped
  <2> QED
    BY <2>1, <2>2
<1>2. NothingScanned \in Lexers
  BY DEF NothingScanned, Lexers, Parts
<1> HIDE DEF step
<1>3. Closed(Lexers, Tokens, step)
  BY <1>1 DEF Closed
<1>4. ASSUME NEW s \in Seq(Tokens) PROVE Turns(Run(s), Lexers, step, NothingScanned, s, Len(s))
  <2>1. \A k \in 1..Len(s) : s[k] \in Tokens
    OBVIOUS
  <2>2. PICK f \in [0..Len(s) -> Lexers] : Turns(f, Lexers, step, NothingScanned, s, Len(s))
    BY <1>2, <1>3, LoopRuns
  <2>3. ASSUME NEW k \in 0..Len(s)
        PROVE  f[k] = IF k = 0 THEN NothingScanned ELSE LexStep(f[k - 1], s[k])
    <3>1. CASE k = 0
      BY <2>2, <3>1 DEF Turns
    <3>2. CASE k # 0
      <4>1. k \in 1..Len(s) /\ k - 1 \in 0..Len(s)
        BY <3>2
      <4>2. f[k - 1] \in Lexers /\ f[k] = step[<<f[k - 1], s[k]>>]
        BY <2>2, <4>1 DEF Turns
      <4> QED
        BY <1>1, <2>1, <3>2, <4>1, <4>2, Zenon
    <3> QED
      BY <3>1, <3>2
  <2>4. IsRun(Run(s), s)
    BY <2>2, <2>3
  <2> DEFINE g == Run(s)
  <2> HIDE DEF Run
  <2>5. /\ DOMAIN g = 0..Len(s)
        /\ \A k \in 0..Len(s) : g[k] = IF k = 0 THEN NothingScanned ELSE LexStep(g[k - 1], s[k])
    BY <2>4, Zenon
  <2> HIDE DEF g, IsRun
  <2>6. g[0] = NothingScanned
    BY <2>5
  <2>7. ASSUME NEW k \in 1..Len(s), g[k - 1] \in Lexers
        PROVE  g[k] = step[<<g[k - 1], s[k]>>]
    <3>1. k \in 0..Len(s) /\ k # 0
      OBVIOUS
    <3> QED
      BY <1>1, <2>1, <2>5, <2>7, <3>1, Zenon
  <2> QED
    BY <2>5, <2>6, <2>7 DEF Turns, g
<1>5. ASSUME NEW s \in Seq(Tokens) PROVE Scanned(s) = Run(s)[Len(s)]
  BY DEF Scanned, NothingScanned
<1> HIDE DEF Run
<1>6. Scanned(<<>>) = NothingScanned
  <2>1. <<>> \in Seq(Tokens) /\ Len(<<>>) = 0
    OBVIOUS
  <2> QED
    BY <1>4, <1>5, <2>1 DEF Turns
<1>7. ASSUME NEW s \in Seq(Tokens), NEW e \in Tokens
      PROVE  Scanned(s) \in Lexers /\ Scanned(Append(s, e)) = LexStep(Scanned(s), e)
  <2>1. Append(s, e) \in Seq(Tokens) /\ Len(Append(s, e)) = Len(s) + 1
    OBVIOUS
  <2>2. OneMore(Run(s), Run(Append(s, e)), Lexers, Tokens, step, NothingScanned, s, e)
    BY <1>2, <1>3, <1>4, <2>1 DEF OneMore
  <2>3. /\ Run(s)[Len(s)] \in Lexers
        /\ Run(Append(s, e))[Len(s) + 1] = step[<<Run(s)[Len(s)], e>>]
    BY <2>2, LoopOfAppend
  <2> QED
    BY <1>1, <1>5, <2>1, <2>3
<1> QED
  BY <1>6, <1>7

\* Position Len(line) + 1: whether the line leaves a literal open.
Open(line) == Quoted(line, Len(line) + 1)
Comment(line) == line # <<>> /\ IsComment(line)

\* The front of a line that may turn out well laid out.
Begun(line) ==
    \/ Comment(line)
    \/ \A k \in DOMAIN line : /\ line[k] = "dashes"    => Quoted(line, k)
                              /\ line[k] = "semicolon" => ~Quoted(line, k)

\* A quote opens or closes a literal, no other token does.
LEMMA OpenTurns ==
    /\ ~Open(<<>>)
    /\ \A line \in Seq(Tokens), token \in Tokens :
        /\ \A k \in 1..Len(line) + 1 : Quoted(Append(line, token), k) <=> Quoted(line, k)
        /\ Open(Append(line, token)) <=> (Open(line) <=> token # "quote")
<1>1. ~Open(<<>>)
  <2>1. {j \in 1..(Len(<<>>) + 1) - 1 : <<>>[j] = "quote"} = {}
    OBVIOUS
  <2> QED
    BY <2>1, FS_EmptySet DEF Open, Quoted
<1>2. ASSUME NEW line \in Seq(Tokens), NEW token \in Tokens
      PROVE  /\ \A k \in 1..Len(line) + 1 : Quoted(Append(line, token), k) <=> Quoted(line, k)
             /\ Open(Append(line, token)) <=> (Open(line) <=> token # "quote")
  <2> DEFINE n == Len(line)
             longer == Append(line, token)
             Quotes(t, k) == {j \in 1..k - 1 : t[j] = "quote"}
  <2>1. n \in Nat /\ Len(longer) = n + 1 /\ longer[n + 1] = token
        /\ \A j \in 1..n : longer[j] = line[j]
    OBVIOUS
  <2>2. ASSUME NEW k \in 1..n + 1 PROVE Quotes(longer, k) = Quotes(line, k)
    BY <2>1
  <2>3. \A k \in 1..n + 1 : Quoted(longer, k) <=> Quoted(line, k)
    BY <2>2 DEF Quoted
  <2>4. Quotes(longer, n + 2) = IF token = "quote" THEN Quotes(line, n + 1) \cup {n + 1}
                                ELSE Quotes(line, n + 1)
    BY <2>1
  <2>5. /\ IsFiniteSet(Quotes(line, n + 1)) /\ n + 1 \notin Quotes(line, n + 1)
        /\ Cardinality(Quotes(line, n + 1)) \in Nat
    <3>1. IsFiniteSet(1..n) /\ Quotes(line, n + 1) \subseteq 1..n
      BY <2>1, FS_Interval
    <3> QED
      BY <2>1, <3>1, FS_Subset, FS_CardinalityType
  <2>6. Cardinality(Quotes(longer, n + 2)) =
          IF token = "quote" THEN Cardinality(Quotes(line, n + 1)) + 1
          ELSE Cardinality(Quotes(line, n + 1))
    BY <2>4, <2>5, FS_AddElement
  <2>7. /\ Open(line) <=> Cardinality(Quotes(line, n + 1)) % 2 = 1
        /\ Open(longer) <=> Cardinality(Quotes(longer, n + 2)) % 2 = 1
    <3>1. (n + 1) + 1 = n + 2
      BY <2>1
    <3> QED
      BY <2>1, <3>1 DEF Open, Quoted
  <2>8. \A c \in Nat : (c + 1) % 2 = 1 <=> ~(c % 2 = 1)
    OBVIOUS
  <2> HIDE DEF Quotes
  <2>9. Open(longer) <=> (Open(line) <=> token # "quote")
    BY <2>5, <2>6, <2>7, <2>8
  <2> QED
    BY <2>3, <2>9
<1> QED
  BY <1>1, <1>2

\* What has been written: lines that are complete, and the one begun.
Before(lines) == SubSeq(lines, 1, Len(lines) - 1)
Current(lines) == lines[Len(lines)]
Lines(t) == Split(t, "newline")

Written(lines) ==
    /\ \A k \in DOMAIN Before(lines) : WellLaidOut(lines[k])
    /\ Begun(Current(lines))

\* The lexer stands where the statements of the lines so far leave it.
InStep(lines, lexer) ==
    LET clean == Cleaned(Before(lines))
        line == Current(lines) IN
    IF Comment(line)
    THEN lexer.mode = "comment" /\ lexer.statements = Split(clean, "semicolon")
    ELSE /\ lexer.mode = IF Open(line) THEN "literal" ELSE "code"
         /\ lexer.statements = Split(clean \o line, "semicolon")

\* The lines after a newline and after any other token.
LEMMA LinesTurn ==
    ASSUME NEW lines \in Parts, NEW token \in Tokens
    PROVE  LET next == CutAt("newline", lines, token) IN
           /\ next \in Parts
           /\ token = "newline" => Before(next) = lines /\ Current(next) = <<>>
           /\ token # "newline" => /\ Before(next) = Before(lines)
                                   /\ Current(next) = Append(Current(lines), token)
           /\ lines = Append(Before(lines), Current(lines))
           /\ Before(lines) \in Seq(Seq(Tokens)) /\ Current(lines) \in Seq(Tokens)
<1>1. lines \in Seq(Seq(Tokens)) /\ Len(lines) \in Nat /\ Len(lines) > 0
  BY DEF Parts
<1>2. CASE token = "newline"
  BY <1>1, <1>2 DEF CutAt, Before, Current, Parts
<1>3. CASE token # "newline"
  <2>1. Append(Current(lines), token) \in Seq(Tokens)
    BY <1>1 DEF Current
  <2> QED
    BY <1>1, <1>3, <2>1 DEF CutAt, Before, Current, Parts
<1> QED
  BY <1>2, <1>3

\* A newline: the line is complete, a comment is dropped.
LEMMA NewlineInStep ==
    ASSUME NEW lines \in Parts, NEW lexer \in Lexers, InStep(lines, lexer),
           NEW next, next = CutAt("newline", lines, "newline"), Written(next)
    PROVE  Written(lines) /\ InStep(next, LexStep(lexer, "newline"))
<1> DEFINE line == Current(lines)
           clean == Cleaned(Before(lines))
<1>1. /\ next \in Parts /\ Before(next) = lines /\ Current(next) = <<>>
      /\ lines = Append(Before(lines), line)
      /\ Before(lines) \in Seq(Seq(Tokens)) /\ line \in Seq(Tokens)
  BY LinesTurn DEF Tokens
<1>2. Cleaned(lines) = KeepLine(clean, line) /\ clean \in Seq(Tokens)
  BY <1>1, CleanedTurns, Zenon
<1>3. WellLaidOut(line) /\ Written(lines)
  <2>1. \A k \in DOMAIN lines : WellLaidOut(next[k])
    BY <1>1 DEF Written
  <2>2. \A k \in DOMAIN lines : next[k] = lines[k]
    BY <1>1 DEF Before, Parts
  <2>3. /\ Len(lines) \in DOMAIN lines
        /\ \A k \in DOMAIN Before(lines) : k \in DOMAIN lines
    BY DEF Parts, Before
  <2>4. WellLaidOut(line)
    BY <2>1, <2>2, <2>3 DEF Current
  <2>5. Begun(line)
    BY <2>4 DEF WellLaidOut, Begun, Comment
  <2> QED
    BY <2>1, <2>2, <2>3, <2>4, <2>5 DEF Written
<1>4. ~Comment(<<>>) /\ ~Open(<<>>)
  BY OpenTurns DEF Comment
<1> HIDE DEF line, clean
<1>5. CASE Comment(line)
  <2>1. lexer.mode = "comment" /\ lexer.statements = Split(clean, "semicolon")
    BY <1>5 DEF InStep, line, clean
  <2>2. Cleaned(lines) = clean
    BY <1>2, <1>5 DEF KeepLine, Kept, Comment
  <2>3. LexStep(lexer, "newline") = [lexer EXCEPT !.mode = "code"]
    BY <2>1 DEF LexStep
  <2>4. clean \o <<>> = clean
    BY <1>2
  <2> QED
    BY <1>1, <1>3, <1>4, <2>1, <2>2, <2>3, <2>4 DEF InStep, Lexers
<1>6. CASE ~Comment(line)
  <2>1. ~Open(line)
    BY <1>3, <1>6 DEF WellLaidOut, Comment, Open
  <2>2. lexer.mode = "code" /\ lexer.statements = Split(clean \o line, "semicolon")
    BY <1>6, <2>1 DEF InStep, line, clean
  <2>3. Cleaned(lines) = clean \o line
    BY <1>1, <1>2, <1>6 DEF KeepLine, Kept, Comment
  <2>4. LexStep(lexer, "newline") = lexer
    BY <2>2 DEF LexStep
  <2>5. clean \o line \in Seq(Tokens) /\ (clean \o line) \o <<>> = clean \o line
    BY <1>1, <1>2
  <2> QED
    BY <1>1, <1>3, <1>4, <2>2, <2>3, <2>4, <2>5 DEF InStep
<1> QED
  BY <1>5, <1>6

\* Any other token goes on the line.
LEMMA TokenInStep ==
    ASSUME NEW lines \in Parts, NEW lexer \in Lexers, InStep(lines, lexer),
           NEW token \in Tokens, token # "newline",
           NEW next, next = CutAt("newline", lines, token), Written(next)
    PROVE  InStep(next, LexStep(lexer, token))
<1> DEFINE line == Current(lines)
           longer == Append(line, token)
           clean == Cleaned(Before(lines))
           after == LexStep(lexer, token)
<1>1. /\ next \in Parts /\ Before(next) = Before(lines) /\ Current(next) = longer
      /\ Before(lines) \in Seq(Seq(Tokens)) /\ line \in Seq(Tokens)
  BY LinesTurn
<1>2. clean \in Seq(Tokens)
  BY <1>1, CleanedTurns
<1>3. /\ Open(longer) <=> (Open(line) <=> token # "quote")
      /\ Quoted(longer, Len(line) + 1) <=> Open(line)
  <2>1. Len(line) \in Nat /\ Len(line) + 1 \in 1..Len(line) + 1
    BY <1>1
  <2> QED
    BY <1>1, <2>1, OpenTurns DEF Open
<1>4. /\ Len(longer) = Len(line) + 1 /\ longer[Len(line) + 1] = token
      /\ Len(line) + 1 \in DOMAIN longer /\ longer # <<>>
      /\ line # <<>> => longer[1] = line[1]
      /\ line = <<>> => longer[1] = token
  BY <1>1
<1>5. Split(clean \o longer, "semicolon") = CutAt("semicolon", Split(clean \o line, "semicolon"), token)
  <2>1. clean \o line \in Seq(Tokens) /\ clean \o longer = Append(clean \o line, token)
    BY <1>1, <1>2
  <2> QED
    BY <2>1, SplitTurns, Zenon
<1>6. Begun(longer)
  BY <1>1 DEF Written
<1>7. CASE Comment(line)
  <2>1. Comment(longer)
    BY <1>4, <1>7 DEF Comment, IsComment
  <2>2. lexer.mode = "comment" /\ lexer.statements = Split(clean, "semicolon")
    BY <1>7 DEF InStep
  <2>3. after = lexer
    BY <2>2 DEF LexStep
  <2> QED
    BY <1>1, <2>1, <2>2, <2>3 DEF InStep
<1>8. CASE ~Comment(line)
  <2>1. /\ lexer.mode = IF Open(line) THEN "literal" ELSE "code"
        /\ lexer.statements = Split(clean \o line, "semicolon")
    BY <1>8 DEF InStep
  <2>2. CASE Comment(longer)
    <3>1. line = <<>> /\ token = "dashes"
      BY <1>4, <1>8, <2>2 DEF Comment, IsComment
    <3>2. lexer.mode = "code" /\ clean \o line = clean
      BY <1>2, <2>1, <3>1, OpenTurns
    <3>3. after = [lexer EXCEPT !.mode = "comment"]
      BY <3>1, <3>2 DEF LexStep
    <3> QED
      BY <1>1, <2>1, <2>2, <3>2, <3>3 DEF InStep, Lexers
  <2>3. CASE ~Comment(longer)
    <3>1. (token = "dashes" => Open(line)) /\ (token = "semicolon" => ~Open(line))
      BY <1>3, <1>4, <1>6, <2>3 DEF Begun
    <3> DEFINE cut == CutAt("semicolon", lexer.statements, token)
    <3>2. after.statements = cut /\ after.mode = IF Open(longer) THEN "literal" ELSE "code"
      <4>1. CASE Open(line)
        BY <1>3, <2>1, <3>1, <4>1 DEF LexStep, CutAt, Lexers
      <4>2. CASE ~Open(line)
        BY <1>3, <2>1, <3>1, <4>2 DEF LexStep, CutAt, Lexers, Tokens
      <4> QED
        BY <4>1, <4>2
    <3> HIDE DEF after, cut
    <3>3. after.statements = Split(clean \o longer, "semicolon")
      BY <1>5, <2>1, <3>2 DEF cut
    <3> QED
      BY <1>1, <2>3, <3>2, <3>3 DEF InStep, after
  <2> QED
    BY <2>2, <2>3
<1> QED
  BY <1>7, <1>8

\* A line that is begun was begun a token earlier.
LEMMA BegunBefore ==
    ASSUME NEW line \in Seq(Tokens), NEW token \in Tokens, Begun(Append(line, token))
    PROVE  Begun(line)
<1> DEFINE longer == Append(line, token)
<1>1. /\ Len(line) \in Nat /\ DOMAIN line = 1..Len(line)
      /\ DOMAIN longer = 1..Len(line) + 1
      /\ \A k \in 1..Len(line) : longer[k] = line[k]
  OBVIOUS
<1>2. CASE line = <<>>
  BY <1>2 DEF Begun
<1>3. CASE line # <<>> /\ Comment(longer)
  <2>1. 1 \in 1..Len(line)
    BY <1>1, <1>3
  <2> QED
    BY <1>1, <1>3, <2>1 DEF Begun, Comment, IsComment
<1>4. CASE ~Comment(longer)
  <2>1. \A k \in 1..Len(line) : Quoted(longer, k) <=> Quoted(line, k)
    <3>1. \A k \in 1..Len(line) : k \in 1..Len(line) + 1
      BY <1>1
    <3> QED
      BY <3>1, OpenTurns
  <2>2. \A k \in 1..Len(line) : k \in 1..Len(line) + 1
    BY <1>1
  <2> HIDE DEF longer
  <2> QED
    BY <1>1, <1>4, <2>1, <2>2 DEF Begun, longer
<1> QED
  BY <1>2, <1>3, <1>4

\* Inductive: a template is not laid out well at every token, a literal may
\* still be open, so the last line is only one that can become so.
TextRead ==
    /\ text \in Seq(Tokens)
    /\ Written(Lines(text)) => InStep(Lines(text), Scanned(text))

\* splitSQL reads the text as the lexer does for as long as it is laid out as
\* templates are.
LEMMA TextStep ==
    ASSUME TextRead, NEW token \in Tokens, text' = Append(text, token)
    PROVE  TextRead'
<1> DEFINE lines == Lines(text)
           lexer == Scanned(text)
           next == Lines(Append(text, token))
<1>1. /\ text \in Seq(Tokens) /\ Append(text, token) \in Seq(Tokens)
      /\ lines \in Parts /\ lexer \in Lexers
      /\ next = CutAt("newline", lines, token)
      /\ Scanned(Append(text, token)) = LexStep(lexer, token)
  <2>1. text \in Seq(Tokens) /\ Append(text, token) \in Seq(Tokens)
    BY DEF TextRead
  <2> QED
    BY <2>1, SplitTurns, ScannedTurns, Zenon DEF Lines
<1> HIDE DEF lines, lexer, next
<1>2. ASSUME Written(next) PROVE InStep(next, LexStep(lexer, token))
  <2>1. Written(lines) => InStep(lines, lexer)
    BY DEF TextRead, lines, lexer
  <2>2. Written(lines)
    <3> DEFINE last == Current(lines)
    <3>1. /\ token = "newline" => Before(next) = lines /\ Current(next) = <<>>
          /\ token # "newline" => /\ Before(next) = Before(lines)
                                  /\ Current(next) = Append(Current(lines), token)
          /\ Current(lines) \in Seq(Tokens)
      BY <1>1, LinesTurn
    <3>2. CASE token = "newline"
      <4>1. \A k \in DOMAIN lines : WellLaidOut(next[k])
        BY <1>2, <3>1, <3>2 DEF Written
      <4>2. \A k \in DOMAIN lines : next[k] = lines[k]
        BY <1>1, <3>2 DEF CutAt, Parts
      <4>3. /\ Len(lines) \in DOMAIN lines
            /\ \A k \in DOMAIN Before(lines) : k \in DOMAIN lines
        BY <1>1 DEF Parts, Before
      <4>4. Begun(Current(lines))
        BY <4>1, <4>2, <4>3 DEF Current, WellLaidOut, Begun, Comment
      <4> QED
        BY <4>1, <4>2, <4>3, <4>4 DEF Written
    <3>3. CASE token # "newline"
      <4>1. Begun(Current(lines))
        BY <1>2, <3>1, <3>3, BegunBefore DEF Written
      <4>2. \A k \in DOMAIN Before(lines) : next[k] = lines[k]
        BY <1>1, <3>3 DEF CutAt, Parts, Before
      <4> QED
        BY <1>2, <3>1, <3>3, <4>1, <4>2 DEF Written
    <3> QED
      BY <3>2, <3>3
  <2>3. CASE token = "newline"
    BY <1>1, <1>2, <2>1, <2>2, <2>3, NewlineInStep
  <2>4. CASE token # "newline"
    BY <1>1, <1>2, <2>1, <2>2, <2>4, TokenInStep
  <2> QED
    BY <2>3, <2>4
<1> QED
  BY <1>1, <1>2 DEF TextRead, next

(***************************************************************************)
(* splitSQL, for templates of any length: as long as every literal ends on *)
(* its line and holds no semicolon, and a comment has a line of its own,   *)
(* the statements that are executed are those the server's lexer sees,     *)
(* although lines and semicolons are all that splitSQL looks at.           *)
(***************************************************************************)
THEOREM TemplatesSplitAsWritten == Spec => []SplitsAsWritten
<1>1. Init => TextRead
  <2> SUFFICES ASSUME Init PROVE TextRead
    OBVIOUS
  <2>1. text = <<>> /\ text \in Seq(Tokens)
    BY DEF Init
  <2>2. Lines(text) = << <<>> >> /\ Scanned(text) = NothingScanned
    BY <2>1, SplitTurns, ScannedTurns, Zenon DEF Lines
  <2>3. Before(Lines(text)) = <<>> /\ Current(Lines(text)) = <<>>
    BY <2>2 DEF Before, Current
  <2>4. Cleaned(<<>>) = <<>> /\ <<>> \o <<>> = <<>>
    BY CleanedTurns
  <2>5. Split(<<>>, "semicolon") = << <<>> >>
    BY SplitTurns
  <2>6. ~Comment(<<>>) /\ ~Open(<<>>)
    BY OpenTurns DEF Comment
  <2>7. NothingScanned.mode = "code" /\ NothingScanned.statements = << <<>> >>
    BY DEF NothingScanned
  <2>8. InStep(Lines(text), NothingScanned)
    BY <2>3, <2>4, <2>5, <2>6, <2>7, Zenon DEF InStep
  <2> QED
    BY <2>1, <2>2, <2>8 DEF TextRead
<1>2. TextRead /\ [Next]_vars => TextRead'
  <2> SUFFICES ASSUME TextRead, [Next]_vars PROVE TextRead'
    OBVIOUS
  <2>1. CASE UNCHANGED text
    BY <2>1 DEF TextRead
  <2>2. ASSUME NEW token \in Tokens, Write(token) PROVE TextRead'
    <3>1. text' = Append(text, token)
      BY <2>2 DEF Write
    <3> QED
      BY <3>1, TextStep
  <2> QED
    BY <2>1, <2>2 DEF Next, vars, AddPlan, GiveParameter, LengthenPrefix, LengthenName
<1>3. TextRead => SplitsAsWritten
  <2> SUFFICES ASSUME TextRead, IsTemplate(text) PROVE SplitSQL(text) = Lexed(text)
    BY DEF SplitsAsWritten
  <2> DEFINE lines == Lines(text)
             line == Current(lines)
             clean == Cleaned(Before(lines))
  <2>1. lines \in Parts
    <3>1. text \in Seq(Tokens) /\ "newline" \in Tokens
      BY DEF TextRead, Tokens
    <3> QED
      BY <3>1, SplitTurns, Zenon DEF Lines
  <2>2. \A k \in DOMAIN lines : WellLaidOut(lines[k])
    BY DEF IsTemplate, Lines
  <2>3. Written(lines)
    <3>1. /\ Len(lines) \in DOMAIN lines
          /\ \A k \in DOMAIN Before(lines) : k \in DOMAIN lines
      BY <2>1 DEF Parts, Before
    <3> QED
      BY <2>2, <3>1 DEF Written, Current, WellLaidOut, Begun, Comment
  <2>4. InStep(lines, Scanned(text))
    BY <2>3 DEF TextRead
  <2>5. /\ Cleaned(lines) = KeepLine(clean, line) /\ clean \in Seq(Tokens)
        /\ line \in Seq(Tokens)
    <3>1. /\ lines = Append(Before(lines), line)
          /\ Before(lines) \in Seq(Seq(Tokens)) /\ line \in Seq(Tokens)
      BY <2>1, LinesTurn DEF Tokens
    <3> QED
      BY <3>1, CleanedTurns, Zenon
  <2> HIDE DEF lines, line, clean
  <2>6. Scanned(text).statements = Split(Cleaned(lines), "semicolon")
    <3>1. CASE Comment(line)
      BY <2>4, <2>5, <3>1 DEF InStep, KeepLine, Kept, Comment, line, clean
    <3>2. CASE ~Comment(line)
      <4>1. Cleaned(lines) = clean \o line
        BY <2>5, <3>2 DEF KeepLine, Kept, Comment
      <4> QED
        BY <2>4, <3>2, <4>1 DEF InStep, line, clean
    <3> QED
      BY <3>1, <3>2
  <2> QED
    BY <2>6 DEF SplitSQL, Lexed, Lines, lines
<1> QED
  BY <1>1, <1>2, <1>3, PTL DEF Spec
=============================================================================
