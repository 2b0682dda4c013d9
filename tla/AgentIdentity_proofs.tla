------------------------- MODULE AgentIdentity_proofs -------------------------
(***************************************************************************)
(* The owner index of the agent-identity contract mirrors its agents, the  *)
(* count is that of the live agents, and authority over an agent comes     *)
(* from a grant, for any accounts, permissions and number of agents.       *)
(***************************************************************************)
EXTENDS AgentIdentity, FiniteSetTheorems, TLAPS

\* Strengthened by: only finitely many agents are live, so they can be counted.
IInv ==
    /\ TypeOK /\ IndexMirrorsAgents
    /\ IsFiniteSet(DOMAIN agents) /\ CountIsLive

\* The steps that leave every agent's owner alone.
OwnersStay ==
    /\ UNCHANGED <<owner_to_id, registered_count>>
    /\ DOMAIN agents' = DOMAIN agents
    /\ \A id \in DOMAIN agents : agents'[id].owner = agents[id].owner

(***************************************************************************)
(* Such a step keeps index and count.                                      *)
(***************************************************************************)
LEMMA OwnersStayKeep ==
    ASSUME IInv, OwnersStay, TypeOK'
    PROVE  IInv'
BY DEF IInv, OwnersStay, IndexMirrorsAgents, CountIsLive

(***************************************************************************)
(* A registration adds one agent, under an id no agent has had.            *)
(***************************************************************************)
LEMMA RegisterKeeps ==
    ASSUME IInv, NEW owner \in Addr, NEW uri \in Uris \cup {BadUri},
           register(owner, uri)
    PROVE  IInv'
<1> USE DEF register, Enrol, Set
<1>1. next_id \in Nat \ {0} /\ next_id \notin DOMAIN agents
  BY DEF IInv, TypeOK, Ids
<1>2. DOMAIN agents' = DOMAIN agents \cup {next_id}
  OBVIOUS
<1>3. TypeOK'
  <2>1. Ids' = Ids \cup {next_id}
    BY <1>1 DEF Ids
  <2>2. uri \in Uris
    BY DEF validate_uri
  <2>3. \A id \in DOMAIN agents' : agents'[id] \in [owner : Addr, uri : Uris]
    BY <1>2, <2>2 DEF IInv, TypeOK
  <2>4. DOMAIN agents' \subseteq Ids' /\ DOMAIN delegates' \subseteq (Ids \X Addr)'
    BY <1>2, <2>1 DEF IInv, TypeOK
  <2>5. DOMAIN owner_to_id' \subseteq Addr
    BY DEF IInv, TypeOK
  <2>6. /\ admin' \in Addr \cup {NotSet} /\ next_id' \in Nat \ {0}
        /\ registered_count' \in Nat /\ now' \in Nat
    BY DEF IInv, TypeOK
  <2>7. \A k \in DOMAIN delegates' :
           delegates'[k] \in [valid_until : Nat, permissions : SUBSET Permissions]
    BY DEF IInv, TypeOK
  <2> QED
    BY <2>3, <2>4, <2>5, <2>6, <2>7 DEF TypeOK
<1>4. IndexMirrorsAgents'
  BY <1>1, <1>2 DEF IInv, IndexMirrorsAgents
<1>5. /\ IsFiniteSet(DOMAIN agents')
      /\ Cardinality(DOMAIN agents') = Cardinality(DOMAIN agents) + 1
  BY <1>1, <1>2, FS_AddElement DEF IInv
<1> QED
  BY <1>3, <1>4, <1>5 DEF IInv, CountIsLive

(***************************************************************************)
(* A deregistration removes one agent and the index entry that is its own. *)
(***************************************************************************)
LEMMA DeregisterKeeps ==
    ASSUME IInv, NEW caller \in Addr, NEW id \in DOMAIN agents,
           deregister(caller, id)
    PROVE  IInv'
<1> USE DEF deregister, IsOwner, Remove
<1>1. caller \in DOMAIN owner_to_id /\ owner_to_id[caller] = id
  BY DEF IInv, IndexMirrorsAgents
<1>2. /\ DOMAIN agents' = DOMAIN agents \ {id}
      /\ DOMAIN owner_to_id' = DOMAIN owner_to_id \ {caller}
  BY <1>1
<1>3. IndexMirrorsAgents'
  BY <1>1, <1>2 DEF IInv, IndexMirrorsAgents
<1>4. /\ IsFiniteSet(DOMAIN agents') /\ Cardinality(DOMAIN agents) \in Nat
      /\ Cardinality(DOMAIN agents') = Cardinality(DOMAIN agents) - 1
  BY <1>2, FS_RemoveElement, FS_CardinalityType DEF IInv
<1>5. Cardinality(DOMAIN agents') \in Nat
  BY <1>4, FS_CardinalityType
<1>6. registered_count' = registered_count - 1
  BY <1>4, <1>5 DEF IInv, CountIsLive, saturating_sub
<1>7. TypeOK'
  BY <1>2, <1>4, <1>5, <1>6 DEF IInv, TypeOK, CountIsLive, Ids
<1> QED
  BY <1>3, <1>4, <1>6, <1>7 DEF IInv, CountIsLive

(***************************************************************************)
(* A transfer moves the index entry with the agent.                        *)
(***************************************************************************)
LEMMA UpdateOwnerKeeps ==
    ASSUME IInv, NEW caller \in Addr, NEW id \in DOMAIN agents,
           NEW new_owner \in Addr, update_owner(caller, id, new_owner)
    PROVE  IInv'
<1> USE DEF update_owner, IsOwner, Set, Remove
<1>1. caller \in DOMAIN owner_to_id /\ owner_to_id[caller] = id
      /\ new_owner \notin DOMAIN owner_to_id
  BY DEF IInv, IndexMirrorsAgents
<1>2. /\ DOMAIN agents' = DOMAIN agents
      /\ \A k \in DOMAIN agents : agents[k] \in [owner : Addr, uri : Uris]
  BY DEF IInv, TypeOK
<1>3. /\ agents'[id] = [owner |-> new_owner, uri |-> agents[id].uri]
      /\ \A k \in DOMAIN agents \ {id} : agents'[k] = agents[k]
  BY <1>2
<1>4. DOMAIN owner_to_id' = (DOMAIN owner_to_id \ {caller}) \cup {new_owner}
  OBVIOUS
<1>5. TypeOK'
  <2>1. \A k \in DOMAIN agents' : agents'[k] \in [owner : Addr, uri : Uris]
    BY <1>2, <1>3
  <2> QED
    BY <1>2, <1>4, <2>1 DEF IInv, TypeOK, Ids
<1>6. IndexMirrorsAgents'
  BY <1>1, <1>2, <1>3, <1>4 DEF IInv, IndexMirrorsAgents
<1> QED
  BY <1>2, <1>5, <1>6 DEF IInv, CountIsLive

(***************************************************************************)
(* The other calls of an owner change a URI or a delegate.                 *)
(***************************************************************************)
LEMMA OtherOwnerStepsKeep ==
    ASSUME IInv, NEW caller \in Addr, NEW id \in DOMAIN agents,
           \/ \E uri \in Uris \cup {BadUri} : update_uri(caller, id, uri)
           \/ \E delegate \in Addr :
                 \/ \E ttl \in Ttls, permissions \in SUBSET Permissions :
                       add_delegate(caller, id, delegate, ttl, permissions)
                 \/ revoke_delegate(caller, id, delegate)
    PROVE  IInv'
<1>1. \A k \in DOMAIN agents : agents[k] \in [owner : Addr, uri : Uris]
  BY DEF IInv, TypeOK
<1>2. CASE \E uri \in Uris \cup {BadUri} : update_uri(caller, id, uri)
  <2>1. PICK uri \in Uris : update_uri(caller, id, uri)
    BY <1>2 DEF update_uri, validate_uri
  <2>2. /\ DOMAIN agents' = DOMAIN agents
        /\ \A k \in DOMAIN agents :
              agents'[k] \in [owner : Addr, uri : Uris]
              /\ agents'[k].owner = agents[k].owner
    BY <1>1, <2>1 DEF update_uri
  <2>3. TypeOK'
    BY <2>1, <2>2 DEF IInv, TypeOK, Ids, update_uri
  <2> QED
    BY <2>1, <2>2, <2>3, OwnersStayKeep DEF OwnersStay, update_uri
<1>3. ASSUME NEW delegate \in Addr, NEW ttl \in Ttls,
             NEW permissions \in SUBSET Permissions,
             add_delegate(caller, id, delegate, ttl, permissions)
      PROVE  IInv'
  <2>1. DOMAIN delegates' = DOMAIN delegates \cup {<<id, delegate>>}
    BY <1>3 DEF add_delegate, Set
  <2>2. now + ttl \in Nat
    BY IdentityAssumption DEF IInv, TypeOK
  <2>3. \A k \in DOMAIN delegates' :
           delegates'[k] \in [valid_until : Nat, permissions : SUBSET Permissions]
    BY <1>3, <2>1, <2>2 DEF add_delegate, Set, IInv, TypeOK
  <2>4. TypeOK'
    BY <1>3, <2>1, <2>3 DEF IInv, TypeOK, Ids, add_delegate, registry
  <2> QED
    BY <1>3, <2>4, OwnersStayKeep DEF OwnersStay, add_delegate, registry
<1>4. ASSUME NEW delegate \in Addr, revoke_delegate(caller, id, delegate)
      PROVE  IInv'
  <2>1. TypeOK'
    BY <1>4 DEF IInv, TypeOK, Ids, revoke_delegate, Remove, registry
  <2> QED
    BY <1>4, <2>1, OwnersStayKeep DEF OwnersStay, revoke_delegate, registry
<1> QED
  BY <1>2, <1>3, <1>4

(***************************************************************************)
(* The empty registry satisfies the invariant.                             *)
(***************************************************************************)
LEMMA InitIsOK == Init => IInv
<1> SUFFICES ASSUME Init PROVE IInv
  OBVIOUS
<1>1. DOMAIN agents = {} /\ DOMAIN owner_to_id = {} /\ DOMAIN delegates = {}
  BY DEF Init
<1>2. TypeOK /\ IndexMirrorsAgents
  BY <1>1 DEF Init, TypeOK, IndexMirrorsAgents
<1> QED
  BY <1>1, <1>2, FS_EmptySet DEF Init, IInv, CountIsLive

(***************************************************************************)
(* Every call and every ledger closed preserves it.                        *)
(***************************************************************************)
LEMMA NextKeepsInv == IInv /\ [Next]_vars => IInv'
<1> SUFFICES ASSUME IInv, [Next]_vars PROVE IInv'
  OBVIOUS
<1>1. ASSUME NEW caller \in Admins, init(caller) PROVE IInv'
  <2>1. TypeOK'
    BY <1>1, IdentityAssumption DEF IInv, TypeOK, Ids, init, registry
  <2> QED
    BY <1>1, <2>1, OwnersStayKeep DEF OwnersStay, init, registry
<1>2. CASE \E owner \in Addr, uri \in Uris \cup {BadUri} : register(owner, uri)
  BY <1>2, RegisterKeeps
<1>3. CASE \E caller \in Addr, id \in DOMAIN agents : OwnerStep(caller, id)
  BY <1>3, DeregisterKeeps, UpdateOwnerKeeps, OtherOwnerStepsKeep DEF OwnerStep
<1>4. CASE Tick \/ UNCHANGED vars
  <2>1. TypeOK'
    BY <1>4 DEF IInv, TypeOK, Ids, Tick, vars, registry
  <2> QED
    BY <1>4, <2>1, OwnersStayKeep DEF OwnersStay, Tick, vars, registry
<1> QED
  BY <1>1, <1>2, <1>3, <1>4 DEF Next

(***************************************************************************)
(* So it holds in every state the registry reaches.                        *)
(***************************************************************************)
LEMMA Invariant == Spec => []IInv
BY InitIsOK, NextKeepsInv, PTL DEF Spec

(***************************************************************************)
(* Every variable stays in its domain (all entry points of the contract).  *)
(***************************************************************************)
THEOREM IdentityTypes == Spec => []TypeOK
BY Invariant, PTL DEF IInv

(***************************************************************************)
(* Owner index and agents mirror each other, whatever is registered,       *)
(* transferred and deregistered in whatever order.                         *)
(***************************************************************************)
THEOREM IndexAlwaysMirrors == Spec => []IndexMirrorsAgents
BY Invariant, PTL DEF IInv

(***************************************************************************)
(* registered_count is the number of live agents.                          *)
(***************************************************************************)
THEOREM CountAlwaysLive == Spec => []CountIsLive
BY Invariant, PTL DEF IInv

(***************************************************************************)
(* Authority over an agent comes from ownership or from a grant of its     *)
(* owner: none is inherited, revived or left over from another agent.      *)
(***************************************************************************)
THEOREM AuthorityAlwaysGranted == Spec => AuthorityIsGranted
<1> DEFINE Gained(id, a, required) ==
             /\ check_delegate(id, a, required)'
             /\ ~check_delegate(id, a, required)
             /\ agents'[id].owner # a
           Granted(id, a) ==
             /\ id \in DOMAIN agents
             /\ \E ttl \in Ttls, permissions \in SUBSET Permissions :
                   add_delegate(agents[id].owner, id, a, ttl, permissions)
<1>1. ASSUME IInv, Next, NEW id \in DOMAIN agents', NEW a \in Addr,
             NEW required \in SUBSET Permissions, Gained(id, a, required)
      PROVE  Granted(id, a)
  <2>1. /\ <<id, a>> \in DOMAIN delegates'
        /\ delegates'[<<id, a>>].valid_until >= now'
        /\ delegates'[<<id, a>>].permissions \cap required # {}
    BY <1>1 DEF check_delegate
  <2>2. ~ /\ id \in DOMAIN agents /\ <<id, a>> \in DOMAIN delegates
          /\ delegates'[<<id, a>>] = delegates[<<id, a>>]
          /\ now' \in {now, now + 1}
    <3> SUFFICES ASSUME id \in DOMAIN agents, <<id, a>> \in DOMAIN delegates,
                        delegates'[<<id, a>>] = delegates[<<id, a>>],
                        now' \in {now, now + 1}
                 PROVE  FALSE
      OBVIOUS
    <3>1. delegates[<<id, a>>].valid_until \in Nat /\ now \in Nat
      BY <1>1 DEF IInv, TypeOK
    <3>2. delegates[<<id, a>>].valid_until >= now
      BY <2>1, <3>1
    <3> QED
      BY <1>1, <2>1, <3>2 DEF check_delegate
  <2>3. CASE id \in DOMAIN agents /\ delegates' = delegates
    <3>1. now' \in {now, now + 1}
      BY <1>1 DEF Next, init, register, Enrol, OwnerStep, update_uri, deregister,
                  update_owner, add_delegate, revoke_delegate, Tick
    <3> QED
      BY <2>1, <2>2, <2>3, <3>1
  <2>4. ASSUME NEW owner \in Addr, NEW uri \in Uris \cup {BadUri},
               register(owner, uri)
        PROVE  Granted(id, a)
    <3>1. delegates' = delegates /\ DOMAIN agents' = DOMAIN agents \cup {next_id}
      BY <2>4 DEF register, Enrol, Set
    <3>2. <<next_id, a>> \notin DOMAIN delegates
      BY <1>1 DEF IInv, TypeOK, Ids
    <3> QED
      BY <2>1, <2>3, <3>1, <3>2
  <2>5. ASSUME NEW caller \in Addr, NEW k \in DOMAIN agents, OwnerStep(caller, k)
        PROVE  Granted(id, a)
    <3>1. DOMAIN agents' \subseteq DOMAIN agents
      BY <2>5 DEF OwnerStep, update_uri, deregister, update_owner, add_delegate,
                  revoke_delegate, Remove, registry
    <3>2. ASSUME NEW delegate \in Addr, NEW ttl \in Ttls,
                 NEW permissions \in SUBSET Permissions,
                 add_delegate(caller, k, delegate, ttl, permissions)
          PROVE  Granted(id, a)
      <4>1. CASE <<id, a>> = <<k, delegate>>
        <5>1. id = k /\ a = delegate /\ caller = agents[id].owner
          BY <3>2, <4>1 DEF add_delegate, IsOwner
        <5> QED
          BY <3>2, <5>1
      <4>2. CASE <<id, a>> # <<k, delegate>>
        <5>1. /\ <<id, a>> \in DOMAIN delegates /\ now' = now
              /\ delegates'[<<id, a>>] = delegates[<<id, a>>]
          BY <2>1, <3>2, <4>2 DEF add_delegate, Set
        <5> QED
          BY <1>1, <2>2, <3>1, <5>1
      <4> QED
        BY <4>1, <4>2
    <3>3. ASSUME NEW delegate \in Addr, revoke_delegate(caller, k, delegate)
          PROVE  Granted(id, a)
      <4>1. /\ <<id, a>> \in DOMAIN delegates /\ now' = now
            /\ delegates'[<<id, a>>] = delegates[<<id, a>>]
        BY <2>1, <3>3 DEF revoke_delegate, Remove
      <4> QED
        BY <1>1, <2>2, <3>1, <4>1
    <3>4. CASE delegates' = delegates
      BY <1>1, <2>3, <3>1, <3>4
    <3> QED
      BY <2>5, <3>2, <3>3, <3>4 DEF OwnerStep, update_uri, deregister, update_owner
  <2>6. CASE Tick \/ \E caller \in Admins : init(caller)
    BY <1>1, <2>3, <2>6 DEF Tick, init, registry
  <2> QED
    BY <1>1, <2>4, <2>5, <2>6 DEF Next
<1>2. IInv /\ [Next]_vars =>
        [\A id \in DOMAIN agents', a \in Addr, required \in SUBSET Permissions :
            Gained(id, a, required) => Granted(id, a)]_vars
  BY <1>1
<1> QED
  BY <1>2, Invariant, PTL DEF Spec, AuthorityIsGranted

=============================================================================
